---- MODULE Spec2Model ----
(***************************************************************************)
(* Model of the smart-home IoT simulation core (src/main.py): the          *)
(* per-sensor power model (IoTSensor), the distance-aware communication    *)
(* channel with its batch scheduler (CommunicationProtocol, MQTTProtocol)  *)
(* and the energy optimizer's duty-cycle writes (EnergyOptimizer).         *)
(*                                                                         *)
(* Numbers.  The program computes in binary floating point; the model      *)
(* computes in fixed point with the scales named below:                    *)
(*   distances        in centimetres                  (DistScale  per m)   *)
(*   transmit power   in tenths of a milliwatt        (PowerScale per mW)  *)
(*   durations        in 1/30000 of a second          (TimeScale  per s)   *)
(*   wall-clock time  in half seconds                 (ClockScale per s)   *)
(*   duty cycle       in percent                      (DutyScale  = 1.0)   *)
(*   sensor power     in hundredths of a milliwatt    (SpecScale  per mW)  *)
(*   operation time   in hundredths of a second       (OpTimeScale per s)  *)
(* so a channel energy value is in units of 1/(PowerScale*TimeScale) mW*s. *)
(***************************************************************************)
EXTENDS Integers, Sequences, FiniteSets, TLC

(***************************************************************************)
(* Bounds of the model                                                     *)
(***************************************************************************)
\* number of publish_message calls explored
MaxCalls == 3
\* last wall-clock instant explored, in half seconds
MaxTime == 2
\* number of publish_message calls explored with fixed batch parameters
MaxBatchCalls == 6

\* number of 2.5 m steps of the distances the path-loss model is called on
MaxDistanceSteps == 480

\* number of publish_message calls in SysSpec
MaxSysCalls == 1

\* the seconds the clock of the alert system runs for
MaxWallClock == 600

\* simulation threads created before the last start_simulation request
MaxLoopThreads == 2

\* publish_message calls of the two producers together
MaxProducerCalls == 3

(***************************************************************************)
(* Fixed-point scales                                                      *)
(***************************************************************************)
DistScale == 100
PowerScale == 10
TimeScale == 30000
ClockScale == 2
DutyScale == 100
SpecScale == 100
OpTimeScale == 100
\* scale of the intermediate values of the path-loss power ratio
RatioScale == 10000

\* reading values are in sixths of their unit
ValueScale == 6

Max(a, b) == IF a >= b THEN a ELSE b

Min(a, b) == IF a <= b THEN a ELSE b

\* floor of the square root of n > 0 by Newton's iteration, started from a
\* value x >= sqrt(n)
RECURSIVE ISqrtFrom(_, _)
ISqrtFrom(n, x) ==
    LET y == (x + n \div x) \div 2
    IN IF y >= x THEN x ELSE ISqrtFrom(n, y)

\* floor of the square root of n, for 0 <= n < 2^31
ISqrt(n) == IF n = 0 THEN 0 ELSE ISqrtFrom(n, 46340)

(***************************************************************************)
(* IoTSensor: the power model                                              *)
(***************************************************************************)
\* self.power_specs, in hundredths of a milliwatt
power_specs ==
    [t \in {"DHT22", "LDR", "AirQuality", "Noise", "PIR"} |->
        CASE t = "DHT22"      -> [sensing |-> 150, communication |-> 1500,
                                  processing |-> 80, sleep |-> 5]
          [] t = "LDR"        -> [sensing |-> 50, communication |-> 1200,
                                  processing |-> 30, sleep |-> 2]
          [] t = "AirQuality" -> [sensing |-> 250, communication |-> 2000,
                                  processing |-> 120, sleep |-> 10]
          [] t = "Noise"      -> [sensing |-> 180, communication |-> 1600,
                                  processing |-> 90, sleep |-> 6]
          [] t = "PIR"        -> [sensing |-> 80, communication |-> 1000,
                                  processing |-> 50, sleep |-> 3]]

\* self.power = self.power_specs.get(sensor_type, self.power_specs['DHT22'])
SensorPower(sensor_type) ==
    IF sensor_type \in DOMAIN power_specs
    THEN power_specs[sensor_type] ELSE power_specs["DHT22"]

\* a returned power value
Value(v) == [kind |-> "value", value |-> v]

\* the outcome of calculate_power_consumption for an operation type that is
\* none of the four known ones (lines 438-439)
OtherOperation(operation_type) == Value(0)

\* the sensing branch (line 431)
SensingPower(power, operation_time, duty_cycle) ==
    power.sensing * operation_time * duty_cycle

\* the sleep branch gated by the duty cycle instead of its complement
SleepPower_Active(power, operation_time, duty_cycle) ==
    power.sleep * operation_time * duty_cycle

\* the sleep branch (line 437)
SleepPower(power, operation_time, duty_cycle) ==
    power.sleep * operation_time * (DutyScale - duty_cycle)

\* calculate_power_consumption of a sensor of the given type and duty cycle,
\* in units of 1 / (SpecScale * OpTimeScale * DutyScale) mW*s
calculate_power_consumption(sensor_type, duty_cycle, operation_time, operation_type) ==
    LET power == SensorPower(sensor_type)
    IN CASE operation_type = "sensing" ->
              Value(SensingPower(power, operation_time, duty_cycle))
         [] operation_type = "communication" ->
              Value(power.communication * operation_time * DutyScale)
         [] operation_type = "processing" ->
              Value(power.processing * operation_time * DutyScale)
         [] operation_type = "sleep" ->
              Value(SleepPower(power, operation_time, duty_cycle))
         [] OTHER -> OtherOperation(operation_type)

(***************************************************************************)
(* CommunicationProtocol                                                   *)
(***************************************************************************)
\* the value None of an optional argument
None == "None"

\* self.gateway_position
gateway_position == <<0, 0>>

\* self.sensor_locations, coordinates in metres
sensor_locations ==
    [l \in {"Living Room", "Master Bedroom", "Kitchen", "Guest Bedroom",
            "Bathroom", "Home Office", "Front Door", "Back Yard"} |->
        CASE l = "Living Room"    -> <<8, 12>>
          [] l = "Master Bedroom" -> <<15, 20>>
          [] l = "Kitchen"        -> <<6, 8>>
          [] l = "Guest Bedroom"  -> <<20, 18>>
          [] l = "Bathroom"       -> <<12, 6>>
          [] l = "Home Office"    -> <<25, 15>>
          [] l = "Front Door"     -> <<3, 5>>
          [] l = "Back Yard"      -> <<10, 25>>]

\* the distance along the axes instead of the straight line
calculate_distance_Taxicab(sensor_location) ==
    IF sensor_location \notin DOMAIN sensor_locations
    THEN 50 * DistScale
    ELSE LET sensor_pos == sensor_locations[sensor_location]
             dx == sensor_pos[1] - gateway_position[1]
             dy == sensor_pos[2] - gateway_position[2]
         IN (Max(dx, -dx) + Max(dy, -dy)) * DistScale

\* distance between sensor and gateway, in centimetres
calculate_distance(sensor_location) ==
    IF sensor_location \notin DOMAIN sensor_locations
    THEN 50 * DistScale
    ELSE LET sensor_pos == sensor_locations[sensor_location]
             dx == sensor_pos[1] - gateway_position[1]
             dy == sensor_pos[2] - gateway_position[2]
         IN ISqrt((dx * dx + dy * dy) * DistScale * DistScale)

\* r |-> sqrt(r) on ratios scaled by RatioScale
RatioSqrt(r) ==
    IF r = 0 THEN 0 ELSE ISqrtFrom(r * RatioScale, (r + RatioScale) \div 2 + 1)

RatioMul(a, b) == (a * b) \div RatioScale

\* (distance / d_ref) ^ (1 / 4): a path-loss exponent of 2.5 instead of 3
power_ratio_LowExponent(distance) ==
    LET d_ref == 10 * DistScale
        r1 == ISqrt(distance * ((RatioScale * RatioScale) \div (100 * d_ref)))
                  * 10
    IN RatioSqrt(r1)

\* (distance / d_ref) ^ (n / 10) with n = 3, scaled by RatioScale:
\* 10 ** ((n * log10(x)) / 10) = x ^ 0.3, and 0.3 = 1/4 + 1/32 + 1/64 +
\* 1/512 + 1/1024 + 1/8192 + 1/16384 + ... in binary, so the power is the
\* product of the matching iterated square roots of x.
power_ratio(distance) ==
    LET d_ref == 10 * DistScale
        \* sqrt(distance / d_ref), scaled by RatioScale
        r1  == ISqrt(distance * ((RatioScale * RatioScale) \div (100 * d_ref)))
                   * 10
        r2  == RatioSqrt(r1)
        r3  == RatioSqrt(r2)
        r4  == RatioSqrt(r3)
        r5  == RatioSqrt(r4)
        r6  == RatioSqrt(r5)
        r7  == RatioSqrt(r6)
        r8  == RatioSqrt(r7)
        r9  == RatioSqrt(r8)
        r10 == RatioSqrt(r9)
        r11 == RatioSqrt(r10)
        r12 == RatioSqrt(r11)
        r13 == RatioSqrt(r12)
        r14 == RatioSqrt(r13)
    IN RatioMul(RatioMul(RatioMul(RatioMul(RatioMul(RatioMul(
           r2, r5), r6), r9), r10), r13), r14)

\* the transmission power without the cap at 200 mW
calculate_transmission_power_Uncapped(distance) ==
    LET P_min == 50 * PowerScale
        d_ref == 10 * DistScale
    IN IF distance <= d_ref
       THEN P_min
       ELSE (P_min * power_ratio(distance)) \div RatioScale

\* transmission power for a distance in centimetres, in tenths of a mW
calculate_transmission_power(distance) ==
    LET P_min == 50 * PowerScale
        d_ref == 10 * DistScale
    IN IF distance <= d_ref
       THEN P_min
       ELSE LET P_tx == (P_min * power_ratio(distance)) \div RatioScale
            IN Min(P_tx, 200 * PowerScale)

\* P_tx * t_tx + P_rx * t_rx + P_idle * t_idle; message_size is not used by
\* the code either
calculate_comm_power(message_size, transmission_time, sensor_location) ==
    LET P_tx == IF sensor_location # None
                THEN calculate_transmission_power(calculate_distance(sensor_location))
                ELSE 100 * PowerScale
        P_rx == 50 * PowerScale
        P_idle == 5 * PowerScale
        t_tx == transmission_time
        t_idle == TimeScale \div 10
    IN P_tx * t_tx + (P_rx * t_tx) \div 10 + P_idle * t_idle

(***************************************************************************)
(* MQTTProtocol: state                                                     *)
(***************************************************************************)
VARIABLES
    message_count,       \* self.message_count
    total_bytes_sent,    \* self.total_bytes_sent
    retry_count,         \* self.retry_count
    message_batch,       \* self.message_batch: sequence of pending messages
    batch_size_limit,    \* self.batch_size_limit
    batch_timeout,       \* self.batch_timeout, in half seconds
    last_batch_time,     \* self.last_batch_time, in half seconds
    batch_mode_enabled,  \* self.batch_mode_enabled
    now,                 \* the value time.time() returns, in half seconds
    publish_calls,       \* number of publish_message calls made so far
    uncounted,           \* number of messages given up without being counted
    call,                \* arguments, locals and return value of the last call
    eval,                \* arguments and result of the last power-model call
    radio,               \* arguments and result of the last path-loss call
    sensors,             \* the sensors list: sensor_id -> sensor object
    optimizer,           \* the fields of the EnergyOptimizer object
    opt_call,            \* arguments, locals and return value of the last
                         \* EnergyOptimizer call other than aggregate_data
    agg_call,            \* argument and return value of the last
                         \* aggregate_data call
    sys_call,            \* arguments and return value of the last IoTSystem
                         \* call
    scan,                \* arguments and outcome of the last pass of the
                         \* activity detection loop of update_sleep_mode
    email_alert_system,  \* EmailAlertSystem: last_alert_time, pending_alerts,
                         \* alert_history
    alert_call,          \* the last call on the alert system and its result
    wall_clock,          \* datetime.now(), in seconds
    producers,           \* the threads inside publish_message: where each is
                         \* in _batch_message, and its locals
    simulation_cycle,    \* the simulation thread inside a cycle: where it is
                         \* and the duty cycles it has read
    update_request,      \* the thread of an update_optimization request
    dashboard,           \* WebDashboardManager: running, simulation_thread
    loop_threads,        \* the _run_simulation threads created so far
    requests             \* the threads of start_simulation and
                         \* stop_simulation requests

\* the threads of the dashboard's update_optimization request and of the
\* simulation cycle
cycleVars == <<simulation_cycle, update_request>>

\* the dashboard manager and the threads of its requests and loops
dashVars == <<dashboard, loop_threads, requests>>

\* the state of the threads
threadVars == <<producers, cycleVars, dashVars>>

\* the alert system and its clock
alertVars == <<email_alert_system, alert_call, wall_clock>>

chanVars == <<message_count, total_bytes_sent, retry_count, message_batch,
              batch_size_limit, batch_timeout, last_batch_time,
              batch_mode_enabled, now, publish_calls, uncounted, call>>

\* the state outside the channel object
nonChanVars == <<eval, radio, sensors, optimizer, opt_call, agg_call, sys_call,
                 scan, alertVars, threadVars>>

\* the state outside the EnergyOptimizer and the sensors it manages
nonOptVars == <<chanVars, eval, radio, agg_call, sys_call, scan, alertVars, threadVars>>

\* payload sizes, in bytes, of the messages published
MessageSizes == {120, 150}

\* sensor_location arguments of the messages published
PublishLocations == {None, "Kitchen", "Living Room"}

\* an optional numeric argument: <<>> is None, <<v>> is the value v
Absent == <<>>

\* batch_size arguments of set_batch_parameters
BatchSizeArgs == {Absent, <<2>>}

\* timeout arguments of set_batch_parameters, in half seconds (<<0>> is 0.0)
TimeoutArgs == {Absent, <<0>>}

\* the locals of a call that did not flush a batch
NoFlush ==
    [flushed |-> FALSE, batch_size |-> 0, total_size |-> 0,
     total_locations |-> {}, raw_power |-> 0, efficiency_factor |-> 0,
     batch_power |-> 0]

\* the record of a call that is not a publish_message call
NoPublish(op) ==
    [op |-> op, message_size |-> 0, sensor_location |-> None,
     queuing_power |-> 0, success |-> TRUE, power |-> 0] @@ NoFlush

\* MQTTProtocol.__init__ (with CommunicationProtocol.__init__)
ChanInit ==
    /\ message_count = 0
    /\ total_bytes_sent = 0
    /\ retry_count = 0
    /\ message_batch = <<>>
    /\ batch_size_limit = 5
    /\ batch_timeout = 3 * ClockScale
    /\ now = 0
    /\ last_batch_time = now
    /\ batch_mode_enabled = TRUE
    /\ publish_calls = 0
    /\ uncounted = 0
    /\ call = NoPublish("__init__")

\* sum(msg['size'] for msg in batch)
RECURSIVE SumSizes(_)
SumSizes(batch) ==
    IF batch = <<>> THEN 0 ELSE Head(batch).size + SumSizes(Tail(batch))

\* sum(self.calculate_distance(loc) for loc in locs)
RECURSIVE SumDistances(_)
SumDistances(locs) ==
    IF locs = {} THEN 0
    ELSE LET loc == CHOOSE l \in locs : TRUE
         IN calculate_distance(loc) + SumDistances(locs \ {loc})

\* set(msg['location'] for msg in batch if msg['location'])
BatchLocations(batch) ==
    {batch[i].location : i \in {j \in 1..Len(batch) : batch[j].location # None}}

\* transmission_time = message_size / 1000
TransmissionTime(message_size) == (message_size * TimeScale) \div 1000

\* batch_transmission_time = total_size / 1200
BatchTransmissionTime(total_size) == (total_size * TimeScale) \div 1200

\* batch_full reached one message late
BatchFull_Late(batch, limit) == Len(batch) > limit

\* batch_full (line 781)
BatchFull(batch, limit) == Len(batch) >= limit

\* timeout_reached with the comparison made inclusive
TimeoutReached_Inclusive(current_time, last, timeout) ==
    (current_time - last) >= timeout

\* timeout_reached (line 782)
TimeoutReached(current_time, last, timeout) == (current_time - last) > timeout

\* the branch condition of line 797
UseAverageDistance(sensor_location, total_locations) ==
    sensor_location # None /\ Cardinality(total_locations) > 0

\* batch_power of line 799: the power at the average distance of the
\* distinct locations of the batch
AverageDistancePower(total_locations, batch_transmission_time) ==
    LET avg_distance == SumDistances(total_locations) \div Cardinality(total_locations)
    IN calculate_transmission_power(avg_distance) * batch_transmission_time

\* batch_power (lines 797-801) before the efficiency discount
RawBatchPower(batch, sensor_location) ==
    LET total_size == SumSizes(batch)
        total_locations == BatchLocations(batch)
    IN IF UseAverageDistance(sensor_location, total_locations)
       THEN AverageDistancePower(total_locations, BatchTransmissionTime(total_size))
       ELSE calculate_comm_power(total_size, BatchTransmissionTime(total_size),
                                 sensor_location)

\* efficiency_factor without its floor of 0.5
EfficiencyFactor_NoFloor(n) == Max(0, 10 - n)

\* efficiency_factor (line 804), in tenths
EfficiencyFactor(n) == Max(5, 10 - n)

\* batch_power of a failed batch (line 821): batch_power *= 1.5
RetryBatchPower(batch_power) == (batch_power * 3) \div 2

\* message_batch after a flush that keeps a failed batch for a retry
FlushedBatch_KeepFailed(batch, success) == IF success THEN <<>> ELSE batch

\* message_batch after a flush (line 825)
FlushedBatch(batch, success) == <<>>

\* the counters after a delivery that counts the messages of a failed batch
\* as sent
BatchCounters_CountFailed(success, count, bytes, retries, batch_len, total_size) ==
    IF success
    THEN <<count + batch_len, bytes + total_size, retries>>
    ELSE <<count + batch_len, bytes + total_size, retries + 1>>

\* the counters after a delivery that adds the bytes of a batch twice
BatchCounters_DoubleBytes(success, count, bytes, retries, batch_len, total_size) ==
    IF success
    THEN <<count + batch_len, bytes + 2 * total_size, retries>>
    ELSE <<count, bytes, retries + 1>>

\* the counters (message_count, total_bytes_sent, retry_count) after the
\* delivery of a batch (lines 811-822)
BatchCounters(success, count, bytes, retries, batch_len, total_size) ==
    IF success
    THEN <<count + batch_len, bytes + total_size, retries>>
    ELSE <<count, bytes, retries + 1>>

\* the single-message outcome with the retry charged once, not twice
SingleOutcome_NoDouble(success, count, bytes, retries, message_size, P) ==
    IF success
    THEN <<count + 1, bytes + message_size, retries, P>>
    ELSE <<count, bytes, retries + 1, P>>

\* the counters and the returned power of _publish_single_message
\* (lines 842-861); P is calculate_comm_power(...)
SingleOutcome(success, count, bytes, retries, message_size, P) ==
    IF success
    THEN <<count + 1, bytes + message_size, retries, P>>
    ELSE <<count, bytes, retries + 1, P * 2>>

(***************************************************************************)
(* MQTTProtocol: operations                                                *)
(***************************************************************************)
\* _batch_message; ok is the outcome of random.random() < 0.93
BatchMessage(message_size, transmission_time, sensor_location, ok) ==
    LET batch == Append(message_batch,
                        [size |-> message_size, time |-> transmission_time,
                         location |-> sensor_location])
        current_time == now
        batch_full == BatchFull(batch, batch_size_limit)
        timeout_reached == TimeoutReached(current_time, last_batch_time, batch_timeout)
        queuing_power == calculate_comm_power(message_size,
                             (transmission_time * 2) \div 10, sensor_location)
        total_size == SumSizes(batch)
        raw_power == RawBatchPower(batch, sensor_location)
        efficiency_factor == EfficiencyFactor(Len(batch))
        discounted == (raw_power * efficiency_factor) \div 10
        batch_power == IF ok THEN discounted ELSE RetryBatchPower(discounted)
        counters == BatchCounters(ok, message_count, total_bytes_sent, retry_count,
                                  Len(batch), total_size)
        batch_size == Len(batch)
        args == [op |-> "_batch_message", message_size |-> message_size,
                 sensor_location |-> sensor_location,
                 queuing_power |-> queuing_power]
    IN IF batch_full \/ timeout_reached
       THEN /\ message_count' = counters[1]
            /\ total_bytes_sent' = counters[2]
            /\ retry_count' = counters[3]
            /\ uncounted' = IF ok THEN uncounted ELSE uncounted + batch_size
            /\ message_batch' = FlushedBatch(batch, ok)
            /\ last_batch_time' = current_time
            /\ call' = args @@
                 [success |-> ok,
                  power |-> queuing_power + (batch_power \div Max(batch_size, 1)),
                  flushed |-> TRUE, batch_size |-> batch_size,
                  total_size |-> total_size,
                  total_locations |-> BatchLocations(batch),
                  raw_power |-> raw_power, efficiency_factor |-> efficiency_factor,
                  batch_power |-> batch_power]
       ELSE /\ message_batch' = batch
            /\ call' = args @@ [success |-> TRUE, power |-> queuing_power] @@ NoFlush
            /\ UNCHANGED <<message_count, total_bytes_sent, retry_count,
                           last_batch_time, uncounted>>

\* _publish_single_message; ok is the outcome of random.random() < 0.95
PublishSingleMessage(message_size, transmission_time, sensor_location, ok) ==
    LET P == calculate_comm_power(message_size, transmission_time, sensor_location)
        outcome == SingleOutcome(ok, message_count, total_bytes_sent, retry_count,
                                 message_size, P)
        args == [op |-> "_publish_single_message", message_size |-> message_size,
                 sensor_location |-> sensor_location, queuing_power |-> 0]
    IN /\ message_count' = outcome[1]
       /\ total_bytes_sent' = outcome[2]
       /\ retry_count' = outcome[3]
       /\ uncounted' = IF ok THEN uncounted ELSE uncounted + 1
       /\ call' = args @@ [success |-> ok, power |-> outcome[4]] @@ NoFlush
       /\ UNCHANGED <<message_batch, last_batch_time>>

\* publish_message: what it does to the channel
publish_message(message_size, sensor_location, ok) ==
    LET transmission_time == TransmissionTime(message_size)
    IN /\ publish_calls' = publish_calls + 1
       /\ IF batch_mode_enabled
          THEN BatchMessage(message_size, transmission_time, sensor_location, ok)
          ELSE PublishSingleMessage(message_size, transmission_time,
                                    sensor_location, ok)
       /\ UNCHANGED <<batch_size_limit, batch_timeout, batch_mode_enabled, now>>

\* one call protocol.publish_message(topic, payload, sensor_location=...)
PublishMessage(message_size, sensor_location, ok) ==
    /\ publish_message(message_size, sensor_location, ok)
    /\ UNCHANGED nonChanVars

\* set_batch_parameters
SetBatchParameters(enabled, batch_size, timeout) ==
    /\ batch_mode_enabled' = enabled
    /\ batch_size_limit' = IF batch_size # Absent THEN Max(1, batch_size[1])
                           ELSE batch_size_limit
    /\ batch_timeout' = IF timeout # Absent THEN Max(ClockScale \div 2, timeout[1])
                        ELSE batch_timeout
    /\ call' = NoPublish("set_batch_parameters")
    /\ UNCHANGED <<message_count, total_bytes_sent, retry_count, message_batch,
                   last_batch_time, now, publish_calls, uncounted,
                   nonChanVars>>

\* the clock read by time.time() advances between calls
Tick ==
    /\ now < MaxTime
    /\ now' = now + 1
    /\ UNCHANGED <<message_count, total_bytes_sent, retry_count, message_batch,
                   batch_size_limit, batch_timeout, last_batch_time,
                   batch_mode_enabled, publish_calls, uncounted, call,
                   nonChanVars>>

(***************************************************************************)
(* Calls of the power model                                                *)
(***************************************************************************)
\* sensor types of the sensors the power model is called on; "Custom" has no
\* entry in power_specs
SensorTypes == {"DHT22", "LDR", "AirQuality", "Noise", "PIR", "Custom"}

\* duty cycles of the sensors, in percent
DutyCycles == {0, 10, 20, 40, 50, 60, 80, 100}

\* operation_time arguments, in hundredths of a second (0.05, 0.1, 0.3, 1.0)
OperationTimes == {5, 10, 30, 100}

\* operation_type arguments; the last two are not operation kinds
OperationTypes == {"sensing", "communication", "processing", "sleep",
                   "transmit", "idle"}

KnownOperationTypes == {"sensing", "communication", "processing", "sleep"}

EvalInit ==
    eval = [fn |-> "none", sensor_type |-> "DHT22", duty_cycle |-> DutyScale,
            operation_time |-> 0, operation_type |-> "sensing",
            result |-> Value(0)]

\* one call sensor.calculate_power_consumption(operation_time, operation_type)
CalculatePowerConsumption(sensor_type, duty_cycle, operation_time, operation_type) ==
    /\ eval' = [fn |-> "calculate_power_consumption",
                sensor_type |-> sensor_type, duty_cycle |-> duty_cycle,
                operation_time |-> operation_time,
                operation_type |-> operation_type,
                result |-> calculate_power_consumption(sensor_type, duty_cycle,
                               operation_time, operation_type)]
    /\ UNCHANGED <<chanVars, radio, sensors, optimizer, opt_call, agg_call,
                   sys_call, scan, alertVars, threadVars>>

(***************************************************************************)
(* Calls of the path-loss model                                            *)
(***************************************************************************)
\* sensor_location arguments: the names of the location table and three
\* names that are not in it ("Unknown" is the location the payloads carry
\* when a sensor has none)
LocationArgs == DOMAIN sensor_locations \cup {"Garage", "Unknown", ""}

\* distance arguments, in centimetres: a grid of 2.5 m steps from 0 m up to
\* MaxDistanceSteps steps, and the distances next to d_ref and at 40 m
DistanceArgs ==
    {k * ((5 * DistScale) \div 2) : k \in 0..MaxDistanceSteps}
        \cup {10 * DistScale - 1, 10 * DistScale, 10 * DistScale + 1,
              40 * DistScale}

RadioInit ==
    radio = [fn |-> "none", sensor_location |-> None, distance |-> 0,
             result |-> 0]

\* one call protocol.calculate_distance(sensor_location)
CalculateDistance(sensor_location) ==
    /\ radio' = [fn |-> "calculate_distance",
                 sensor_location |-> sensor_location, distance |-> 0,
                 result |-> calculate_distance(sensor_location)]
    /\ UNCHANGED <<chanVars, eval, sensors, optimizer, opt_call, agg_call,
                   sys_call, scan, alertVars, threadVars>>

\* one call protocol.calculate_transmission_power(distance)
CalculateTransmissionPower(distance) ==
    /\ radio' = [fn |-> "calculate_transmission_power",
                 sensor_location |-> None, distance |-> distance,
                 result |-> calculate_transmission_power(distance)]
    /\ UNCHANGED <<chanVars, eval, sensors, optimizer, opt_call, agg_call,
                   sys_call, scan, alertVars, threadVars>>

(***************************************************************************)
(* EnergyOptimizer                                                         *)
(***************************************************************************)
\* self.sleep_levels with one more level
sleep_levels_Five == <<80, 60, 40, 20, 10>>

\* self.sleep_levels, duty cycles in percent
sleep_levels == <<80, 60, 40, 20>>

\* self.sleep_level_timeout, in cycles
sleep_level_timeout == 5

\* self.activity_threshold, in percent
activity_threshold == 5

\* the sensors list handed to the optimizer: one DHT22 and one PIR sensor of
\* _initialize_sensors, each with the duty cycle IoTSensor.__init__ gives it
SensorsInit ==
    sensors = <<[sensor_id |-> "living_room_01", sensor_type |-> "DHT22",
                 location |-> "Living Room", duty_cycle |-> DutyScale],
                [sensor_id |-> "pir_01", sensor_type |-> "PIR",
                 location |-> "Front Door", duty_cycle |-> DutyScale]>>

\* an optimizer call that is not update_sleep_mode or
\* update_optimization_params
NoOptResult ==
    [activity_detected |-> FALSE, power_saved |-> 0, updated |-> FALSE]

OptInit ==
    /\ SensorsInit
    /\ optimizer = [optimization_enabled |-> FALSE,
                    duty_cycle |-> 80, aggregation_factor |-> 70,
                    adaptive_duty_cycling |-> FALSE, inactivity_counter |-> 0,
                    progressive_sleep |-> FALSE,
                    last_sensor_values |->
                        [id \in {"living_room_01_temp", "pir_01_motion"} |-> Absent],
                    current_sleep_level |-> 0]
    /\ opt_call = [op |-> "__init__", duty_cycle |-> Absent,
                   aggregation_factor |-> Absent] @@ NoOptResult

\* the loop leaving out the first sensor of the list
SetDutyCycle_SkipFirst(sensor_list, duty_cycle) ==
    [i \in DOMAIN sensor_list |->
        IF i = 1 THEN sensor_list[i]
        ELSE [sensor_list[i] EXCEPT !.duty_cycle = duty_cycle]]

\* for sensor in sensors: sensor.duty_cycle = duty_cycle
SetDutyCycle(sensor_list, duty_cycle) ==
    [i \in DOMAIN sensor_list |-> [sensor_list[i] EXCEPT !.duty_cycle = duty_cycle]]

\* enable_duty_cycling; duty_cycle is Absent or <<percent>>
EnableDutyCycling(duty_cycle) ==
    LET applied == IF duty_cycle # Absent THEN duty_cycle[1]
                   ELSE optimizer.duty_cycle
    IN /\ optimizer' = [optimizer EXCEPT !.duty_cycle = applied]
       /\ sensors' = SetDutyCycle(sensors, applied)
       /\ opt_call' = [op |-> "enable_duty_cycling", duty_cycle |-> duty_cycle,
                       aggregation_factor |-> Absent] @@ NoOptResult
       /\ UNCHANGED nonOptVars

\* enable_adaptive_duty_cycling
EnableAdaptiveDutyCycling(enabled) ==
    /\ optimizer' = [optimizer EXCEPT
           !.adaptive_duty_cycling = enabled,
           !.progressive_sleep = enabled,
           !.inactivity_counter = IF enabled THEN 0 ELSE @,
           !.current_sleep_level = IF enabled THEN 0 ELSE @]
    /\ opt_call' = [op |-> "enable_adaptive_duty_cycling", duty_cycle |-> Absent,
                    aggregation_factor |-> Absent] @@ NoOptResult
    /\ UNCHANGED <<sensors, nonOptVars>>

\* the test with the bounds excluded
ValidParam_Open(value) ==
    /\ value # Absent
    /\ DutyScale \div 10 < value[1]
    /\ value[1] < DutyScale

\* the test without the lower bound
ValidParam_NoLowerBound(value) ==
    /\ value # Absent
    /\ value[1] <= DutyScale

\* value is not None and 0.1 <= value <= 1.0
ValidParam(value) ==
    /\ value # Absent
    /\ DutyScale \div 10 <= value[1]
    /\ value[1] <= DutyScale

\* update_optimization_params; each argument is Absent or <<percent>>
UpdateOptimizationParams(duty_cycle, aggregation_factor) ==
    /\ optimizer' = [optimizer EXCEPT
           !.duty_cycle = IF ValidParam(duty_cycle) THEN duty_cycle[1] ELSE @,
           !.aggregation_factor = IF ValidParam(aggregation_factor)
                                  THEN aggregation_factor[1] ELSE @]
    /\ sensors' = IF ValidParam(duty_cycle)
                  THEN SetDutyCycle(sensors, duty_cycle[1]) ELSE sensors
    /\ opt_call' = [op |-> "update_optimization_params",
                    duty_cycle |-> duty_cycle,
                    aggregation_factor |-> aggregation_factor,
                    activity_detected |-> FALSE, power_saved |-> 0,
                    updated |-> ValidParam(duty_cycle)
                                    \/ ValidParam(aggregation_factor)]
    /\ UNCHANGED nonOptVars

\* the dashboard's update_optimization handler, for a running system; the
\* request carries the duty cycle and the power reduction in percent
UpdateOptimization(duty_cycle_pct, aggregation_factor_pct) ==
    UpdateOptimizationParams(<<duty_cycle_pct>>,
                             <<DutyScale - aggregation_factor_pct>>)

\* 'motion' in sensor_id
IsMotion(sensor_id) == sensor_id = "pir_01_motion"

\* percent_change >= self.activity_threshold
SignificantChange_Inclusive(current_value, previous_value) ==
    IF previous_value # 0
    THEN Max(current_value - previous_value, previous_value - current_value) * 100
             >= activity_threshold * Max(previous_value, -previous_value)
    ELSE IF current_value # 0 THEN 100 >= activity_threshold
         ELSE 0 >= activity_threshold

\* percent_change > self.activity_threshold
SignificantChange(current_value, previous_value) ==
    IF previous_value # 0
    THEN Max(current_value - previous_value, previous_value - current_value) * 100
             > activity_threshold * Max(previous_value, -previous_value)
    ELSE IF current_value # 0 THEN 100 > activity_threshold
         ELSE 0 > activity_threshold

\* the loop over the readings sets activity_detected; readings maps each
\* reading id to Absent or to <<value>>
ActivityDetected(readings, last_sensor_values) ==
    \E id \in DOMAIN readings :
        /\ readings[id] # Absent
        /\ IF IsMotion(id)
           THEN readings[id][1] > 0
           ELSE /\ last_sensor_values[id] # Absent
                /\ SignificantChange(readings[id][1], last_sensor_values[id][1])

\* self.last_sensor_values after the loop: motion readings are not stored
UpdatedLastValues(readings, last_sensor_values) ==
    [id \in DOMAIN last_sensor_values |->
        IF readings[id] # Absent /\ ~IsMotion(id)
        THEN readings[id] ELSE last_sensor_values[id]]

\* the sum over the sensors of
\* (old_duty_cycle - new_duty_cycle) * sensor.power['sensing'] * 5,
\* in units of 1e-4 mJ
RECURSIVE SumPowerDiff(_, _)
SumPowerDiff(sensor_list, new_duty_cycle) ==
    IF sensor_list = <<>> THEN 0
    ELSE (Head(sensor_list).duty_cycle - new_duty_cycle)
             * SensorPower(Head(sensor_list).sensor_type).sensing * 5
         + SumPowerDiff(Tail(sensor_list), new_duty_cycle)

\* the timeout test one cycle early
TimeoutElapsed_Early(inactivity_counter) ==
    inactivity_counter >= sleep_level_timeout - 1

\* the timeout test at twice the timeout
TimeoutElapsed_Twice(inactivity_counter) ==
    inactivity_counter >= 2 * sleep_level_timeout

\* the timeout test one cycle late
TimeoutElapsed_Late(inactivity_counter) ==
    inactivity_counter > sleep_level_timeout

\* self.inactivity_counter >= self.sleep_level_timeout
TimeoutElapsed(inactivity_counter) ==
    inactivity_counter >= sleep_level_timeout

\* self.current_sleep_level < len(self.sleep_levels) - 1
CanSleepDeeper(current_sleep_level) ==
    current_sleep_level < Len(sleep_levels) - 1

\* waking up one level at a time
WakeLevel_OneStep(current_sleep_level) == current_sleep_level - 1

\* the level set when activity is detected at a level above 0
WakeLevel(current_sleep_level) == 0

\* update_sleep_mode without the test of progressive_sleep and without the
\* levels: it only stores the values read
UpdateSleepMode_StoresWhenDisabled(readings) ==
    /\ optimizer' = [optimizer EXCEPT
           !.last_sensor_values = UpdatedLastValues(readings, @)]
    /\ opt_call' = [op |-> "update_sleep_mode", duty_cycle |-> Absent,
                    aggregation_factor |-> Absent] @@ NoOptResult
    /\ UNCHANGED <<sensors, nonOptVars>>

\* update_sleep_mode
UpdateSleepMode(readings) ==
    IF ~optimizer.progressive_sleep
    THEN /\ opt_call' = [op |-> "update_sleep_mode", duty_cycle |-> Absent,
                         aggregation_factor |-> Absent] @@ NoOptResult
         /\ UNCHANGED <<sensors, optimizer, nonOptVars>>
    ELSE LET activity_detected ==
                 ActivityDetected(readings, optimizer.last_sensor_values)
             level == optimizer.current_sleep_level
             counter == optimizer.inactivity_counter + 1
             wake == activity_detected /\ level > 0
             deeper == /\ ~activity_detected
                       /\ TimeoutElapsed(counter)
                       /\ CanSleepDeeper(level)
             new_level == IF wake THEN WakeLevel(level)
                          ELSE IF deeper THEN level + 1 ELSE level
             new_duty_cycle == sleep_levels[new_level + 1]
             power_saved == IF wake THEN 0 - SumPowerDiff(sensors, new_duty_cycle)
                            ELSE IF deeper THEN SumPowerDiff(sensors, new_duty_cycle)
                            ELSE 0
         IN /\ optimizer' = [optimizer EXCEPT
                   !.last_sensor_values = UpdatedLastValues(readings, @),
                   !.inactivity_counter =
                       IF activity_detected \/ TimeoutElapsed(counter)
                       THEN 0 ELSE counter,
                   !.current_sleep_level = new_level]
            /\ sensors' = IF wake \/ deeper
                          THEN SetDutyCycle(sensors, new_duty_cycle)
                          ELSE sensors
            /\ opt_call' = [op |-> "update_sleep_mode", duty_cycle |-> Absent,
                            aggregation_factor |-> Absent,
                            activity_detected |-> activity_detected,
                            power_saved |-> power_saved, updated |-> FALSE]
            /\ UNCHANGED nonOptVars

\* duty_cycle arguments of enable_duty_cycling, in percent: none, the 0.8 of
\* run_simulation, and two values outside [0, 1]
EnableDutyCycleArgs == {Absent, <<80>>, <<150>>, <<-20>>}

\* arguments of update_optimization_params, in percent: none, and the
\* values on both sides of each bound of [0.1, 1.0]
ParamArgs == {Absent, <<9>>, <<10>>, <<100>>, <<101>>}

\* duty_cycle values of the dashboard request, in percent
RequestDutyCycles == {80, 120}

\* aggregation_factor values of the dashboard request, in percent (away
\* from 90, where 1.0 - 0.9 is below 0.1 in floating point)
RequestAggregationFactors == {30, -10, 120}

\* values of the temperature readings
TemperatureValues == {100, 104, 110}

\* the readings of one cycle: at most one temperature reading and at most
\* one motion reading
ReadingArgs ==
    {r \in [{"living_room_01_temp", "pir_01_motion"} ->
                {Absent} \cup {<<v>> : v \in TemperatureValues \cup {0, 1}}] :
        /\ r["pir_01_motion"] \in {Absent, <<0>>, <<1>>}
        /\ r["living_room_01_temp"] \in
               {Absent} \cup {<<v>> : v \in TemperatureValues}}

\* values of the temperature readings and of the stored temperatures in
\* ActivitySpec: the changes between them are of 0, 5 and more than 5
\* percent, from zero, to zero and between negative values
ScanValues == {-106, -100, 0, 95, 100, 105, 106}

\* readings arguments of the detection loop
ScanReadingArgs ==
    {[id \in {"living_room_01_temp", "pir_01_motion"} |->
         IF id = "pir_01_motion" THEN m ELSE t] :
        t \in {Absent} \cup {<<v>> : v \in ScanValues},
        m \in {Absent, <<0>>, <<1>>}}

\* self.last_sensor_values before the loop: no motion value is ever stored
ScanLastValues ==
    {[id \in {"living_room_01_temp", "pir_01_motion"} |->
         IF id = "pir_01_motion" THEN Absent ELSE t] :
        t \in {Absent} \cup {<<v>> : v \in ScanValues}}

ScanInit ==
    scan = [op |-> "none",
            readings |-> [id \in {"living_room_01_temp", "pir_01_motion"} |-> Absent],
            last_sensor_values |->
                [id \in {"living_room_01_temp", "pir_01_motion"} |-> Absent],
            activity_detected |-> FALSE,
            stored |-> [id \in {"living_room_01_temp", "pir_01_motion"} |-> Absent]]

\* one pass of the loop over the readings (lines 955-980)
ScanReadings(readings, last_sensor_values) ==
    /\ scan' = [op |-> "update_sleep_mode", readings |-> readings,
                last_sensor_values |-> last_sensor_values,
                activity_detected |->
                    ActivityDetected(readings, last_sensor_values),
                stored |-> UpdatedLastValues(readings, last_sensor_values)]
    /\ UNCHANGED <<chanVars, eval, radio, sensors, optimizer, opt_call,
                   agg_call, sys_call, alertVars, threadVars>>

(***************************************************************************)
(* EnergyOptimizer.aggregate_data                                          *)
(* A reading is a record of sensor_id, value, unit and power_consumed; the *)
(* timestamp is left out.  Values are in units of 1 / ValueScale, so that  *)
(* the mean of two or of three of them is a whole number; powers are in    *)
(* the units of calculate_power_consumption.                               *)
(***************************************************************************)
\* reading.sensor_id.split('_')[-1], for the reading ids in use
Suffix(sensor_id) ==
    CASE sensor_id \in {"living_room_01_temp", "bedroom_01_temp",
                        "kitchen_01_temp"} -> "temp"
      [] sensor_id = "living_room_01_hum" -> "hum"
      [] sensor_id = "pir_01_motion" -> "motion"

\* the keys of grouped_readings, in the order of their insertion
RECURSIVE SuffixOrder(_)
SuffixOrder(readings) ==
    IF readings = <<>> THEN <<>>
    ELSE LET before == SuffixOrder(SubSeq(readings, 1, Len(readings) - 1))
             sensor_type == Suffix(readings[Len(readings)].sensor_id)
         IN IF \E i \in DOMAIN before : before[i] = sensor_type
            THEN before ELSE Append(before, sensor_type)

\* grouped_readings[sensor_type]
GroupOf(readings, sensor_type) ==
    LET InGroup(reading) == Suffix(reading.sensor_id) = sensor_type
    IN SelectSeq(readings, InGroup)

\* sum(r.value for r in readings_list)
RECURSIVE SumValues(_)
SumValues(readings_list) ==
    IF readings_list = <<>> THEN 0
    ELSE Head(readings_list).value + SumValues(Tail(readings_list))

\* sum(r.power_consumed for r in readings_list)
RECURSIVE SumPowers(_)
SumPowers(readings_list) ==
    IF readings_list = <<>> THEN 0
    ELSE Head(readings_list).power_consumed + SumPowers(Tail(readings_list))

\* the value of the first reading of the group instead of the mean
GroupValue_First(readings_list) == readings_list[1].value

\* avg_value
GroupValue(readings_list) == SumValues(readings_list) \div Len(readings_list)

\* the mean of the powers instead of their sum
GroupPower_Mean(readings_list, aggregation_factor) ==
    ((SumPowers(readings_list) \div Len(readings_list)) * aggregation_factor)
        \div DutyScale

\* the powers divided by the aggregation factor instead of multiplied
GroupPower_Divided(readings_list, aggregation_factor) ==
    (SumPowers(readings_list) * DutyScale) \div aggregation_factor

\* total_power * self.aggregation_factor
GroupPower(readings_list, aggregation_factor) ==
    (SumPowers(readings_list) * aggregation_factor) \div DutyScale

\* the readings appended to aggregated for one group
GroupOutput(sensor_type, readings_list, aggregation_factor) ==
    IF Len(readings_list) > 1
    THEN <<[sensor_id |-> "aggregated_" \o sensor_type,
            value |-> GroupValue(readings_list),
            unit |-> readings_list[1].unit,
            power_consumed |-> GroupPower(readings_list, aggregation_factor)]>>
    ELSE readings_list

\* the loop over grouped_readings.items()
RECURSIVE AggregatedGroups(_, _, _)
AggregatedGroups(order, readings, aggregation_factor) ==
    IF order = <<>> THEN <<>>
    ELSE GroupOutput(Head(order), GroupOf(readings, Head(order)),
                     aggregation_factor)
             \o AggregatedGroups(Tail(order), readings, aggregation_factor)

\* aggregation whatever the flag says
ShouldAggregate_Always(optimization_enabled) == TRUE

\* the test of line 1028, negated
ShouldAggregate(optimization_enabled) == optimization_enabled

\* the list aggregate_data returns
aggregate_data(readings, optimization_enabled, aggregation_factor) ==
    IF ~ShouldAggregate(optimization_enabled) THEN readings
    ELSE AggregatedGroups(SuffixOrder(readings), readings, aggregation_factor)

\* one call optimizer.aggregate_data(readings)
AggregateData(readings) ==
    /\ agg_call' = [op |-> "aggregate_data", readings |-> readings,
                    optimization_enabled |-> optimizer.optimization_enabled,
                    aggregation_factor |-> optimizer.aggregation_factor,
                    result |-> aggregate_data(readings,
                                   optimizer.optimization_enabled,
                                   optimizer.aggregation_factor)]
    /\ UNCHANGED <<chanVars, eval, radio, sensors, optimizer, opt_call,
                   sys_call, scan, alertVars, threadVars>>

\* a temperature reading left out, or the <<value, power_consumed>> of one:
\* 20, 22 or 24 degrees, no power or the 0.12 mJ of a DHT22 at 80 percent
TemperatureOptions ==
    {Absent} \cup {<<v, p>> : v \in {20 * ValueScale, 22 * ValueScale,
                                     24 * ValueScale},
                              p \in {0, 120000}}

\* the options of the last temperature reading of the list
LastTemperatureOptions ==
    {Absent, <<20 * ValueScale, 0>>, <<24 * ValueScale, 120000>>}

\* the list of the temperature reading with the id, if it is not left out
TemperatureReading(sensor_id, option) ==
    IF option = Absent THEN <<>>
    ELSE <<[sensor_id |-> sensor_id, value |-> option[1], unit |-> "C",
            power_consumed |-> option[2]]>>

\* the list of the humidity reading, if there is one
HumidityReading(present) ==
    IF present
    THEN <<[sensor_id |-> "living_room_01_hum", value |-> 60 * ValueScale,
            unit |-> "%", power_consumed |-> 120000]>>
    ELSE <<>>

\* readings arguments of aggregate_data: up to three temperature readings
\* and a humidity reading, in the order collect_sensor_data reads them
AggregateArgs ==
    {TemperatureReading("living_room_01_temp", a) \o HumidityReading(h)
         \o TemperatureReading("bedroom_01_temp", b)
         \o TemperatureReading("kitchen_01_temp", c) :
            a \in TemperatureOptions, b \in TemperatureOptions,
            c \in LastTemperatureOptions, h \in BOOLEAN}

(***************************************************************************)
(* EmailAlertSystem.  Times are in seconds, values in 1/ValueScale of      *)
(* their unit.  datetime.min, the last alert time of a key that never      *)
(* alerted, is Absent.                                                     *)
(***************************************************************************)
\* self.alert_cooldown
alert_cooldown == 300

\* self.thresholds, for the measurements of the sensors of the model
thresholds ==
    [temperature |->
        [min |-> 18 * ValueScale, max |-> 28 * ValueScale,
         critical_min |-> 10 * ValueScale, critical_max |-> 35 * ValueScale],
     humidity |->
        [min |-> 40 * ValueScale, max |-> 70 * ValueScale,
         critical_min |-> 25 * ValueScale, critical_max |-> 85 * ValueScale]]

\* type_mapping.get(sensor_type)
type_mapping(sensor_type) ==
    CASE sensor_type = "temp" -> "temperature"
      [] sensor_type = "hum" -> "humidity"
      [] sensor_type = "motion" -> None

\* threshold_key.replace('_', ' ').title()
Title(threshold_key) ==
    CASE threshold_key = "temperature" -> "Temperature"
      [] threshold_key = "humidity" -> "Humidity"

\* '_'.join(sensor_parts[:-1]) and sensor_id.rsplit('_', 1)[0]: the reading
\* id without its last part
WithoutLastPart(sensor_id) ==
    CASE sensor_id \in {"living_room_01_temp", "living_room_01_hum"}
             -> "living_room_01"
      [] sensor_id = "pir_01_motion" -> "pir_01"

\* alert_key
AlertKey(sensor_id, alert_type) ==
    WithoutLastPart(sensor_id) \o "_" \o alert_type

\* the alert condition of a value (lines 161-176): alert_type is None when
\* the value is within its thresholds
AlertCondition(threshold_key, value) ==
    LET t == thresholds[threshold_key]
    IN CASE value < t.critical_min ->
              [alert_type |-> "Critical Low " \o Title(threshold_key),
               severity |-> "critical", threshold_exceeded |-> t.critical_min]
         [] value >= t.critical_min /\ value > t.critical_max ->
              [alert_type |-> "Critical High " \o Title(threshold_key),
               severity |-> "critical", threshold_exceeded |-> t.critical_max]
         [] value >= t.critical_min /\ value <= t.critical_max
               /\ value < t.min ->
              [alert_type |-> "Low " \o Title(threshold_key),
               severity |-> "high", threshold_exceeded |-> t.min]
         [] value >= t.min /\ value <= t.critical_max /\ value > t.max ->
              [alert_type |-> "High " \o Title(threshold_key),
               severity |-> "high", threshold_exceeded |-> t.max]
         [] OTHER ->
              [alert_type |-> None, severity |-> None, threshold_exceeded |-> 0]

\* the cooldown test without the cooldown
CooldownElapsed_Always(current_time, last_alert) == TRUE

\* time_since_last >= self.alert_cooldown (line 188), with
\* time_since_last = (current_time - last_alert).total_seconds()
CooldownElapsed(current_time, last_alert) ==
    \/ last_alert = Absent
    \/ current_time - last_alert[1] >= alert_cooldown

\* check_sensor_reading: the alerts returned and the alert system after the
\* call
check_sensor_reading(system, reading, current_time) ==
    LET threshold_key == type_mapping(Suffix(reading.sensor_id))
        none == [alerts |-> <<>>, system |-> system]
    IN IF threshold_key = None THEN none
       ELSE
         LET cond == AlertCondition(threshold_key, reading.value)
         IN IF cond.alert_type = None THEN none
            ELSE
              LET alert_key == AlertKey(reading.sensor_id, cond.alert_type)
                  last_alert == system.last_alert_time[alert_key]
                  alert == [timestamp |-> current_time,
                            alert_type |-> cond.alert_type,
                            severity |-> cond.severity,
                            sensor_id |-> reading.sensor_id,
                            sensor_location |-> "Unknown Location",
                            current_value |-> reading.value,
                            threshold_value |-> cond.threshold_exceeded]
              IN IF alert_key \in system.pending_alerts THEN none
                 ELSE IF CooldownElapsed(current_time, last_alert)
                 THEN [alerts |-> <<alert>>,
                       system |-> [system EXCEPT
                          !.pending_alerts = @ \cup {alert_key},
                          !.last_alert_time[alert_key] = <<current_time>>]]
                 ELSE none

\* process_alerts: the alert system after the loop over the alerts
RECURSIVE process_alerts(_, _)
process_alerts(system, alerts) ==
    IF alerts = <<>> THEN system
    ELSE LET alert == Head(alerts)
             alert_key == AlertKey(alert.sensor_id, alert.alert_type)
         IN process_alerts(
                [system EXCEPT !.alert_history = Append(@, alert),
                               !.pending_alerts = @ \ {alert_key}],
                Tail(alerts))

\* the location of the sensor a reading was read from in collect_sensor_data
LocationOfReading(sensor_list, sensor_id) ==
    LET i == CHOOSE k \in DOMAIN sensor_list :
                 sensor_list[k].sensor_id = WithoutLastPart(sensor_id)
    IN sensor_list[i].location

\* the alert checks of collect_sensor_data over the readings of a cycle:
\* all_alerts, with alert.sensor_location = sensor.location, and the alert
\* system after the checks
RECURSIVE CheckedReadings(_, _, _, _)
CheckedReadings(system, sensor_list, readings, current_time) ==
    IF readings = <<>> THEN [all_alerts |-> <<>>, system |-> system]
    ELSE LET first == check_sensor_reading(system, Head(readings), current_time)
             located == [i \in DOMAIN first.alerts |->
                            [first.alerts[i] EXCEPT !.sensor_location =
                                LocationOfReading(sensor_list,
                                                  Head(readings).sensor_id)]]
             rest == CheckedReadings(first.system, sensor_list, Tail(readings),
                                     current_time)
         IN [all_alerts |-> located \o rest.all_alerts, system |-> rest.system]

\* the alert types of the measurements of the model
AlertTypes ==
    {level \o Title(threshold_key) :
        level \in {"Critical Low ", "Critical High ", "Low ", "High "},
        threshold_key \in {"temperature", "humidity"}}

\* the alert keys of the sensors of the model
AlertKeys == {"living_room_01" \o "_" \o alert_type : alert_type \in AlertTypes}

\* EmailAlertSystem.__init__
AlertInit ==
    /\ email_alert_system = [last_alert_time |-> [k \in AlertKeys |-> Absent],
                             pending_alerts |-> {}, alert_history |-> <<>>]
    /\ alert_call = [op |-> "__init__", alerts |-> <<>>, emails_sent |-> 0]
    /\ wall_clock = 0

\* one call email_alert_system.check_sensor_reading(reading)
CheckSensorReading(reading) ==
    LET checked == check_sensor_reading(email_alert_system, reading, wall_clock)
    IN /\ email_alert_system' = checked.system
       /\ alert_call' = [op |-> "check_sensor_reading",
                         alerts |-> checked.alerts, emails_sent |-> 0]
       /\ UNCHANGED <<chanVars, eval, radio, sensors, optimizer, opt_call,
                      agg_call, sys_call, scan, wall_clock, threadVars>>

\* one call email_alert_system.process_alerts(alerts); sent is the number of
\* mails that went out
ProcessAlerts(alerts, sent) ==
    /\ email_alert_system' = process_alerts(email_alert_system, alerts)
    /\ alert_call' = [op |-> "process_alerts", alerts |-> alerts,
                      emails_sent |-> sent]
    /\ UNCHANGED <<chanVars, eval, radio, sensors, optimizer, opt_call,
                   agg_call, sys_call, scan, wall_clock, threadVars>>

\* the seconds that pass between two calls
ClockSteps == {150, 299, 300}

\* datetime.now() advances between calls
AlertTick(seconds) ==
    /\ wall_clock + seconds <= MaxWallClock
    /\ wall_clock' = wall_clock + seconds
    /\ UNCHANGED <<chanVars, eval, radio, sensors, optimizer, opt_call,
                   agg_call, sys_call, scan, email_alert_system, alert_call,
                   threadVars>>

(***************************************************************************)
(* IoTSystem                                                               *)
(***************************************************************************)
\* a PowerMetrics object
PowerMetrics(sensing_power, communication_power, processing_power, sleep_power, total_power) ==
    [sensing_power |-> sensing_power,
     communication_power |-> communication_power,
     processing_power |-> processing_power, sleep_power |-> sleep_power,
     total_power |-> total_power]

SysInit ==
    /\ agg_call = [op |-> "none", readings |-> <<>>,
                   optimization_enabled |-> FALSE, aggregation_factor |-> 70,
                   result |-> <<>>]
    /\ sys_call = [op |-> "__init__", readings |-> <<>>, published |-> "",
                   comm_power |-> 0,
                   metrics |-> PowerMetrics(0, 0, 0, 0, 0)]

\* run_simulation and the dashboard's start_simulation configure the
\* optimizer: the flag, and the 0.8 duty cycle if it is set
StartSimulation(optimization_enabled) ==
    /\ optimizer' = [optimizer EXCEPT
           !.optimization_enabled = optimization_enabled,
           !.duty_cycle = IF optimization_enabled THEN 80 ELSE @]
    /\ sensors' = IF optimization_enabled THEN SetDutyCycle(sensors, 80)
                  ELSE sensors
    /\ opt_call' = IF optimization_enabled
                   THEN [op |-> "enable_duty_cycling", duty_cycle |-> <<80>>,
                         aggregation_factor |-> Absent] @@ NoOptResult
                   ELSE opt_call
    /\ UNCHANGED nonOptVars

\* the power of one reading of a sensor:
\* self.calculate_power_consumption(0.1, 'sensing')
ReadingPower(sensor) ==
    calculate_power_consumption(sensor.sensor_type, sensor.duty_cycle,
                                OpTimeScale \div 10, "sensing").value

\* the readings collect_sensor_data appends for one sensor; values holds
\* the temperature, the humidity and the motion value read in this cycle
SensorReadings(sensor, values) ==
    IF sensor.sensor_type = "DHT22"
    THEN <<[sensor_id |-> sensor.sensor_id \o "_temp", value |-> values.temp,
            unit |-> "C", power_consumed |-> ReadingPower(sensor)],
           [sensor_id |-> sensor.sensor_id \o "_hum", value |-> values.hum,
            unit |-> "%", power_consumed |-> ReadingPower(sensor)]>>
    ELSE <<[sensor_id |-> sensor.sensor_id \o "_motion",
            value |-> values.motion, unit |-> "binary",
            power_consumed |-> ReadingPower(sensor)]>>

\* the loop of collect_sensor_data over self.sensors
RECURSIVE CollectedReadings(_, _)
CollectedReadings(sensor_list, values) ==
    IF sensor_list = <<>> THEN <<>>
    ELSE SensorReadings(Head(sensor_list), values)
             \o CollectedReadings(Tail(sensor_list), values)

\* the alerts of the cycle: check_sensor_reading on every reading, and
\* process_alerts on the alerts found if there are any (lines 1118-1146);
\* sent is the number of mails that went out
CheckAndProcessAlerts(readings, sent) ==
    LET checked == CheckedReadings(email_alert_system, sensors, readings,
                                   wall_clock)
    IN IF checked.all_alerts # <<>>
       THEN /\ email_alert_system' = process_alerts(checked.system,
                                                    checked.all_alerts)
            /\ alert_call' = [op |-> "collect_sensor_data",
                              alerts |-> checked.all_alerts,
                              emails_sent |-> Min(sent, Len(checked.all_alerts))]
       ELSE /\ email_alert_system' = checked.system
            /\ alert_call' = [op |-> "collect_sensor_data", alerts |-> <<>>,
                              emails_sent |-> 0]

\* collect_sensor_data that also puts the sensors back on full duty
CollectSensorData_ResetsDuty(values, sent) ==
    /\ sys_call' = [op |-> "collect_sensor_data",
                    readings |-> CollectedReadings(sensors, values),
                    published |-> "", comm_power |-> 0,
                    metrics |-> PowerMetrics(0, 0, 0, 0, 0)]
    /\ CheckAndProcessAlerts(CollectedReadings(sensors, values), sent)
    /\ sensors' = SetDutyCycle(sensors, DutyScale)
    /\ UNCHANGED <<chanVars, eval, radio, optimizer, opt_call, agg_call,
                   scan, wall_clock, threadVars>>

\* collect_sensor_data: the readings of the sensors, and the alerts raised
\* on them and processed
CollectSensorData(values, sent) ==
    /\ sys_call' = [op |-> "collect_sensor_data",
                    readings |-> CollectedReadings(sensors, values),
                    published |-> "", comm_power |-> 0,
                    metrics |-> PowerMetrics(0, 0, 0, 0, 0)]
    /\ CheckAndProcessAlerts(CollectedReadings(sensors, values), sent)
    /\ UNCHANGED <<chanVars, eval, radio, sensors, optimizer, opt_call,
                   agg_call, scan, wall_clock, threadVars>>

\* sum(s.calculate_power_consumption(1.0, 'sleep') for s in self.sensors)
RECURSIVE SumSleepPower(_)
SumSleepPower(sensor_list) ==
    IF sensor_list = <<>> THEN 0
    ELSE calculate_power_consumption(Head(sensor_list).sensor_type,
             Head(sensor_list).duty_cycle, OpTimeScale, "sleep").value
         + SumSleepPower(Tail(sensor_list))

\* the total without the sleep power
TotalPower_NoSleep(sensing_power, comm_power, processing_power, sleep_power) ==
    sensing_power + comm_power + processing_power

\* total_power of the snapshot (line 1165)
TotalPower(sensing_power, comm_power, processing_power, sleep_power) ==
    sensing_power + comm_power + processing_power + sleep_power

\* the PowerMetrics calculate_system_power returns; 0.5 mW per reading of
\* processing power
calculate_system_power(sensor_list, readings, comm_power) ==
    LET sensing_power == SumPowers(readings)
        processing_power ==
            Len(readings) * ((SpecScale * OpTimeScale * DutyScale) \div 2)
        sleep_power == SumSleepPower(sensor_list)
    IN PowerMetrics(sensing_power, comm_power, processing_power, sleep_power,
                    TotalPower(sensing_power, comm_power, processing_power,
                               sleep_power))

\* one call system.calculate_system_power(readings, comm_power)
CalculateSystemPower(readings, comm_power) ==
    /\ sys_call' = [op |-> "calculate_system_power", readings |-> readings,
                    published |-> "", comm_power |-> comm_power,
                    metrics |-> calculate_system_power(sensors, readings,
                                                       comm_power)]
    /\ UNCHANGED <<chanVars, eval, radio, sensors, optimizer, opt_call,
                   agg_call, scan, alertVars, threadVars>>

\* base_sensor_id = reading.sensor_id.split('_')[0], for the reading ids
\* in use
base_sensor_id(sensor_id) ==
    CASE sensor_id \in {"living_room_01_temp", "living_room_01_hum"}
             -> "living"
      [] sensor_id \in {"bedroom_01_temp", "bedroom_01_hum"} -> "bedroom"
      [] sensor_id \in {"kitchen_01_temp", "kitchen_01_hum"} -> "kitchen"
      [] sensor_id = "pir_01_motion" -> "pir"

\* next((s for s in self.sensors if s.sensor_id == base_sensor_id), None):
\* the positions of the sensors that match
MatchingSensors(sensor_list, sensor_id) ==
    {i \in DOMAIN sensor_list :
        sensor_list[i].sensor_id = base_sensor_id(sensor_id)}

\* sensor_location = matching_sensor.location if matching_sensor else None
SensorLocation(sensor_list, sensor_id) ==
    LET matching == MatchingSensors(sensor_list, sensor_id)
    IN IF matching = {} THEN None
       ELSE sensor_list[CHOOSE i \in matching :
                           \A j \in matching : i <= j].location

\* the size of the message of a reading: len(json.dumps(payload))
PayloadSize == 120

\* one pass of the loop "for reading in readings" of the cycle: the reading
\* is published with the location found for it
PublishReading(reading, ok) ==
    /\ publish_message(PayloadSize,
                       SensorLocation(sensors, reading.sensor_id), ok)
    /\ sys_call' = [sys_call EXCEPT !.op = "publish_message",
                                    !.published = reading.sensor_id]
    /\ UNCHANGED <<eval, radio, sensors, optimizer, opt_call, agg_call, scan,
                   alertVars, threadVars>>

\* the power the last publish_message call returned, in the units of
\* calculate_power_consumption
PublishedPower ==
    (call.power * ((SpecScale * OpTimeScale * DutyScale) \div 100000))
        \div ((PowerScale * TimeScale) \div 100000)

(***************************************************************************)
(* Threads.  The code takes no lock anywhere, so a thread can be           *)
(* interrupted between any two statements; a step below is one statement   *)
(* (or a run of statements that touch no shared state) of one thread.      *)
(***************************************************************************)
\* the threads that publish on the same MQTTProtocol
Producers == {1, 2}

\* no producer is inside publish_message
ProducersInit ==
    producers = [p \in Producers |->
                    [pc |-> "idle", current_time |-> 0, total_size |-> 0,
                     batch_size |-> 0]]

\* what a step of a producer leaves alone
producerFrame ==
    <<batch_size_limit, batch_timeout, batch_mode_enabled, now, call, eval,
      radio, sensors, optimizer, opt_call, agg_call, sys_call, scan, alertVars,
      cycleVars, dashVars>>

\* _batch_message, lines 772-778: the message is appended
ProducerAppend(p, message_size) ==
    /\ producers[p].pc = "idle"
    /\ batch_mode_enabled
    /\ message_batch' = Append(message_batch,
                               [size |-> message_size,
                                time |-> TransmissionTime(message_size),
                                location |-> None])
    /\ publish_calls' = publish_calls + 1
    /\ producers' = [producers EXCEPT ![p].pc = "appended"]
    /\ UNCHANGED <<message_count, total_bytes_sent, retry_count,
                   last_batch_time, uncounted, producerFrame>>

\* lines 780-788 and 829-831: the clock and the batch are read and the
\* flush is decided; without a flush the call returns
ProducerDecide(p) ==
    /\ producers[p].pc = "appended"
    /\ producers' = [producers EXCEPT
          ![p].current_time = now,
          ![p].pc = IF \/ BatchFull(message_batch, batch_size_limit)
                       \/ TimeoutReached(now, last_batch_time, batch_timeout)
                    THEN "flush" ELSE "idle"]
    /\ UNCHANGED <<message_count, total_bytes_sent, retry_count, message_batch,
                   last_batch_time, publish_calls, uncounted, producerFrame>>

\* lines 789-805: total_size and the power of the batch are computed from
\* the batch as it is now
ProducerSum(p) ==
    /\ producers[p].pc = "flush"
    /\ producers' = [producers EXCEPT ![p].total_size = SumSizes(message_batch),
                                      ![p].pc = "summed"]
    /\ UNCHANGED <<message_count, total_bytes_sent, retry_count, message_batch,
                   last_batch_time, publish_calls, uncounted, producerFrame>>

\* lines 807-821: the delivery succeeds or fails and the counters are
\* updated, message_count by the length the batch has now
ProducerCount(p, ok) ==
    LET counters == BatchCounters(ok, message_count, total_bytes_sent,
                                  retry_count, Len(message_batch),
                                  producers[p].total_size)
    IN /\ producers[p].pc = "summed"
       /\ message_count' = counters[1]
       /\ total_bytes_sent' = counters[2]
       /\ retry_count' = counters[3]
       /\ uncounted' = IF ok THEN uncounted ELSE uncounted + Len(message_batch)
       /\ producers' = [producers EXCEPT ![p].pc = "counted"]
       /\ UNCHANGED <<message_batch, last_batch_time, publish_calls,
                      producerFrame>>

\* lines 823-827: the batch is replaced by an empty list, the timer is
\* reset and the call returns
ProducerClear(p) ==
    /\ producers[p].pc = "counted"
    /\ message_batch' = <<>>
    /\ last_batch_time' = producers[p].current_time
    /\ producers' = [producers EXCEPT ![p].batch_size = Len(message_batch),
                                      ![p].pc = "idle"]
    /\ UNCHANGED <<message_count, total_bytes_sent, retry_count, publish_calls,
                   uncounted, producerFrame>>

\* the simulation thread is between two cycles and no request is being
\* served
CycleInit ==
    /\ simulation_cycle = [pc |-> "idle", position |-> 1, reads |-> <<>>]
    /\ update_request = [pc |-> "idle", duty_cycle |-> Absent,
                         aggregation_factor |-> Absent, position |-> 1]

\* the calls of calculate_power_consumption a sensor is asked for in
\* collect_sensor_data: two readings of a DHT22 sensor, one of another
RECURSIVE SensingReads(_, _)
SensingReads(sensor_list, i) ==
    IF i > Len(sensor_list) THEN <<>>
    ELSE (IF sensor_list[i].sensor_type = "DHT22"
          THEN <<[sensor |-> i, operation_type |-> "sensing"],
                 [sensor |-> i, operation_type |-> "sensing"]>>
          ELSE <<[sensor |-> i, operation_type |-> "sensing"]>>)
         \o SensingReads(sensor_list, i + 1)

\* the calls of calculate_power_consumption of one cycle, in their order:
\* those of collect_sensor_data, then those of the sleep power of
\* calculate_system_power
CycleReads(sensor_list) ==
    SensingReads(sensor_list, 1)
        \o [i \in DOMAIN sensor_list |->
               [sensor |-> i, operation_type |-> "sleep"]]

\* what a step of the simulation cycle leaves alone
cycleFrame ==
    <<chanVars, eval, radio, sensors, optimizer, opt_call, agg_call, sys_call,
      scan, alertVars, producers, update_request, dashVars>>

\* the simulation thread starts a cycle
CycleBegin ==
    /\ simulation_cycle.pc \in {"idle", "done"}
    /\ simulation_cycle' = [pc |-> "cycle", position |-> 1, reads |-> <<>>]
    /\ UNCHANGED cycleFrame

\* the next call of calculate_power_consumption of the cycle reads
\* self.duty_cycle of its sensor as it is now
CycleRead ==
    LET plan == CycleReads(sensors)
        read == plan[simulation_cycle.position]
        sensor == sensors[read.sensor]
        operation_time == IF read.operation_type = "sensing"
                          THEN OpTimeScale \div 10 ELSE OpTimeScale
    IN /\ simulation_cycle.pc = "cycle"
       /\ simulation_cycle' =
             [pc |-> IF simulation_cycle.position = Len(plan)
                     THEN "done" ELSE "cycle",
              position |-> simulation_cycle.position + 1,
              reads |-> Append(simulation_cycle.reads,
                  [sensor_id |-> sensor.sensor_id,
                   operation_type |-> read.operation_type,
                   duty_cycle |-> sensor.duty_cycle,
                   power |-> calculate_power_consumption(sensor.sensor_type,
                                 sensor.duty_cycle, operation_time,
                                 read.operation_type).value])]
       /\ UNCHANGED cycleFrame

\* what a step of an update_optimization request leaves alone
requestFrame ==
    <<chanVars, eval, radio, agg_call, sys_call, scan, alertVars, producers,
      simulation_cycle, dashVars>>

\* update_optimization, lines 493-495: the request is parsed
RequestBegin(duty_cycle_pct, aggregation_factor_pct) ==
    /\ update_request.pc = "idle"
    /\ update_request' = [pc |-> "duty_cycle",
                          duty_cycle |-> <<duty_cycle_pct>>,
                          aggregation_factor |->
                              <<DutyScale - aggregation_factor_pct>>,
                          position |-> 1]
    /\ UNCHANGED <<sensors, optimizer, opt_call, requestFrame>>

\* update_optimization_params, lines 929-930: the duty cycle is validated
\* and stored in the optimizer
RequestSetDutyCycle ==
    /\ update_request.pc = "duty_cycle"
    /\ IF ValidParam(update_request.duty_cycle)
       THEN /\ optimizer' = [optimizer EXCEPT
                                !.duty_cycle = update_request.duty_cycle[1]]
            /\ update_request' = [update_request EXCEPT !.pc = "sensors",
                                                        !.position = 1]
       ELSE /\ update_request' = [update_request EXCEPT
                                     !.pc = "aggregation_factor"]
            /\ UNCHANGED optimizer
    /\ UNCHANGED <<sensors, opt_call, requestFrame>>

\* lines 931-932: the loop writes the duty cycle of the next sensor
RequestWriteSensor ==
    /\ update_request.pc = "sensors"
    /\ sensors' = [sensors EXCEPT ![update_request.position].duty_cycle =
                                     update_request.duty_cycle[1]]
    /\ update_request' =
          [update_request EXCEPT
              !.position = @ + 1,
              !.pc = IF update_request.position = Len(sensors)
                     THEN "aggregation_factor" ELSE "sensors"]
    /\ UNCHANGED <<optimizer, opt_call, requestFrame>>

\* lines 936-941: the aggregation factor is validated and stored, and the
\* call returns
RequestSetAggregationFactor ==
    /\ update_request.pc = "aggregation_factor"
    /\ optimizer' = [optimizer EXCEPT
          !.aggregation_factor =
              IF ValidParam(update_request.aggregation_factor)
              THEN update_request.aggregation_factor[1] ELSE @]
    /\ opt_call' = [op |-> "update_optimization_params",
                    duty_cycle |-> update_request.duty_cycle,
                    aggregation_factor |-> update_request.aggregation_factor,
                    activity_detected |-> FALSE, power_saved |-> 0,
                    updated |-> \/ ValidParam(update_request.duty_cycle)
                                \/ ValidParam(update_request.aggregation_factor)]
    /\ update_request' = [update_request EXCEPT !.pc = "idle"]
    /\ UNCHANGED <<sensors, requestFrame>>

\* the threads that serve start_simulation and stop_simulation requests
Requests == {1, 2}

\* a request thread that is serving nothing
IdleRequest ==
    [op |-> "none", pc |-> "idle", optimization_enabled |-> FALSE,
     result |-> "none"]

\* WebDashboardManager.__init__: not running, simulation_thread None
\* (written 0); a thread of loop_threads is "created", alive at the test of
\* its loop ("test") or inside a cycle ("cycle"), or "finished"
DashInit ==
    /\ dashboard = [running |-> FALSE, simulation_thread |-> 0]
    /\ loop_threads = <<>>
    /\ requests = [r \in Requests |-> IdleRequest]

\* thread is not None and thread.is_alive()
IsAlive(threads, t) ==
    /\ t \in DOMAIN threads
    /\ threads[t] \in {"test", "cycle"}

\* what a step of a request that touches only its own position leaves alone
dashFrame ==
    <<chanVars, eval, radio, agg_call, sys_call, scan, alertVars, producers,
      cycleVars>>

\* a start_simulation request arrives
StartBegin(r, optimization_enabled) ==
    /\ requests[r].pc = "idle"
    /\ requests' = [requests EXCEPT ![r] =
          [op |-> "start_simulation", pc |-> "check_running",
           optimization_enabled |-> optimization_enabled, result |-> "none"]]
    /\ UNCHANGED <<dashboard, loop_threads, sensors, optimizer, opt_call,
                   dashFrame>>

\* start_simulation, lines 63-64: if self.running: return False
StartCheckRunning(r) ==
    /\ requests[r].pc = "check_running"
    /\ requests' = [requests EXCEPT ![r] =
          IF dashboard.running
          THEN [@ EXCEPT !.pc = "idle", !.result = "False"]
          ELSE [@ EXCEPT !.pc = "set_running"]]
    /\ UNCHANGED <<dashboard, loop_threads, sensors, optimizer, opt_call,
                   dashFrame>>

\* lines 67-68: self.running = True
StartSetRunning(r) ==
    /\ requests[r].pc = "set_running"
    /\ dashboard' = [dashboard EXCEPT !.running = TRUE]
    /\ requests' = [requests EXCEPT ![r].pc = "configure"]
    /\ UNCHANGED <<loop_threads, sensors, optimizer, opt_call, dashFrame>>

\* lines 81-83: the optimizer is configured
StartConfigure(r) ==
    LET optimization_enabled == requests[r].optimization_enabled
    IN /\ requests[r].pc = "configure"
       /\ optimizer' = [optimizer EXCEPT
              !.optimization_enabled = optimization_enabled,
              !.duty_cycle = IF optimization_enabled THEN 80 ELSE @]
       /\ sensors' = IF optimization_enabled THEN SetDutyCycle(sensors, 80)
                     ELSE sensors
       /\ opt_call' = IF optimization_enabled
                      THEN [op |-> "enable_duty_cycling", duty_cycle |-> <<80>>,
                            aggregation_factor |-> Absent] @@ NoOptResult
                      ELSE opt_call
       /\ requests' = [requests EXCEPT ![r].pc = "check_thread"]
       /\ UNCHANGED <<dashboard, loop_threads, dashFrame>>

\* line 86: if self.simulation_thread is None or not
\* self.simulation_thread.is_alive(); otherwise the call returns True
StartCheckThread(r) ==
    /\ requests[r].pc = "check_thread"
    /\ requests' = [requests EXCEPT ![r] =
          IF ~IsAlive(loop_threads, dashboard.simulation_thread)
          THEN [@ EXCEPT !.pc = "create_thread"]
          ELSE [@ EXCEPT !.pc = "idle", !.result = "True"]]
    /\ UNCHANGED <<dashboard, loop_threads, sensors, optimizer, opt_call,
                   dashFrame>>

\* lines 87-88: self.simulation_thread = threading.Thread(...)
StartCreateThread(r) ==
    /\ requests[r].pc = "create_thread"
    /\ loop_threads' = Append(loop_threads, "created")
    /\ dashboard' = [dashboard EXCEPT
                        !.simulation_thread = Len(loop_threads) + 1]
    /\ requests' = [requests EXCEPT ![r].pc = "start_thread"]
    /\ UNCHANGED <<sensors, optimizer, opt_call, dashFrame>>

\* lines 89-94: self.simulation_thread.start() and return True; start() on
\* a thread that was started already raises RuntimeError
StartStartThread(r) ==
    LET t == dashboard.simulation_thread
    IN /\ requests[r].pc = "start_thread"
       /\ IF loop_threads[t] = "created"
          THEN /\ loop_threads' = [loop_threads EXCEPT ![t] = "test"]
               /\ requests' = [requests EXCEPT ![r].pc = "idle",
                                               ![r].result = "True"]
          ELSE /\ requests' = [requests EXCEPT ![r].pc = "idle",
                                               ![r].result = "RuntimeError"]
               /\ UNCHANGED loop_threads
       /\ UNCHANGED <<dashboard, sensors, optimizer, opt_call, dashFrame>>

\* a stop_simulation request arrives
StopBegin(r) ==
    /\ requests[r].pc = "idle"
    /\ requests' = [requests EXCEPT ![r] =
          [op |-> "stop_simulation", pc |-> "clear_running",
           optimization_enabled |-> FALSE, result |-> "none"]]
    /\ UNCHANGED <<dashboard, loop_threads, sensors, optimizer, opt_call,
                   dashFrame>>

\* stop_simulation, lines 101-102: self.running = False
StopClearRunning(r) ==
    /\ requests[r].pc = "clear_running"
    /\ dashboard' = [dashboard EXCEPT !.running = FALSE]
    /\ requests' = [requests EXCEPT ![r].pc = "join"]
    /\ UNCHANGED <<loop_threads, sensors, optimizer, opt_call, dashFrame>>

\* lines 105-108: join(timeout=5.0) of the thread if it is alive; it
\* returns when the thread has finished or, with timed_out, after 5 seconds
StopJoin(r, timed_out) ==
    LET t == dashboard.simulation_thread
    IN /\ requests[r].pc = "join"
       /\ ~IsAlive(loop_threads, t) \/ timed_out
       /\ requests' = [requests EXCEPT ![r].pc = "idle", ![r].result = "None"]
       /\ UNCHANGED <<dashboard, loop_threads, sensors, optimizer, opt_call,
                      dashFrame>>

\* _run_simulation, line 119: while self.running
LoopTest(t) ==
    /\ loop_threads[t] = "test"
    /\ loop_threads' = [loop_threads EXCEPT ![t] =
                           IF dashboard.running THEN "cycle" ELSE "finished"]
    /\ UNCHANGED <<dashboard, requests, sensors, optimizer, opt_call,
                   dashFrame>>

\* _run_simulation, lines 120-237: one cycle of the loop, up to its sleep
LoopCycle(t) ==
    /\ loop_threads[t] = "cycle"
    /\ loop_threads' = [loop_threads EXCEPT ![t] = "test"]
    /\ UNCHANGED <<dashboard, requests, sensors, optimizer, opt_call,
                   dashFrame>>

(***************************************************************************)
(* Specifications                                                          *)
(***************************************************************************)
vars == <<message_count, total_bytes_sent, retry_count, message_batch,
          batch_size_limit, batch_timeout, last_batch_time,
          batch_mode_enabled, now, publish_calls, uncounted, call, eval,
          radio, sensors, optimizer, opt_call, agg_call, sys_call, scan,
          email_alert_system, alert_call, wall_clock, producers,
          simulation_cycle, update_request, dashboard, loop_threads, requests>>

Init ==
    /\ ChanInit /\ EvalInit /\ RadioInit /\ OptInit /\ SysInit /\ ScanInit
    /\ AlertInit /\ ProducersInit /\ CycleInit /\ DashInit

\* a caller publishes a message
Publish ==
    \E size \in MessageSizes, loc \in PublishLocations, ok \in BOOLEAN :
        /\ publish_calls < MaxCalls
        /\ PublishMessage(size, loc, ok)

\* a caller reconfigures the batch scheduler
Configure ==
    \E enabled \in BOOLEAN, batch_size \in BatchSizeArgs, timeout \in TimeoutArgs :
        SetBatchParameters(enabled, batch_size, timeout)

\* the channel under any sequence of publish_message and
\* set_batch_parameters calls
Next == Publish \/ Configure \/ Tick

Spec == Init /\ [][Next]_vars

\* batch sizes the channel is configured with at setup
SetupBatchSizes == {0, 2, 5, 6}

\* sensor_location arguments of the messages published in BatchSpec
BatchLocationArgs == {None, "Living Room"}

\* the batch parameters are configured once, before the first message
Setup ==
    \E batch_size \in SetupBatchSizes, timeout \in TimeoutArgs :
        /\ call.op = "__init__"
        /\ SetBatchParameters(TRUE, <<batch_size>>, timeout)

\* a caller publishes a message after the setup
BatchPublish ==
    \E size \in MessageSizes, loc \in BatchLocationArgs, ok \in BOOLEAN :
        /\ publish_calls < MaxBatchCalls
        /\ call.op # "__init__"
        /\ PublishMessage(size, loc, ok)

\* the channel in batch mode with parameters configured once at setup
BatchNext == Setup \/ BatchPublish \/ Tick

BatchSpec == Init /\ [][BatchNext]_vars

\* the power model called on sensors of every type and duty cycle
PowerNext ==
    \E sensor_type \in SensorTypes, duty_cycle \in DutyCycles,
       operation_time \in OperationTimes, operation_type \in OperationTypes :
          CalculatePowerConsumption(sensor_type, duty_cycle, operation_time,
                                    operation_type)

PowerSpec == Init /\ [][PowerNext]_vars

\* a caller asks for the distance of a location
DistanceCall ==
    \E sensor_location \in LocationArgs : CalculateDistance(sensor_location)

\* a caller asks for the transmission power over a distance
TransmissionPowerCall ==
    \E distance \in DistanceArgs : CalculateTransmissionPower(distance)

\* the path-loss model called on every location and distance
RadioNext == DistanceCall \/ TransmissionPowerCall

RadioSpec == Init /\ [][RadioNext]_vars

\* a caller sets the duty cycle of the sensors
DutyCycling ==
    \E duty_cycle \in EnableDutyCycleArgs : EnableDutyCycling(duty_cycle)

\* a caller switches adaptive duty cycling on or off
AdaptiveDutyCycling ==
    \E enabled \in BOOLEAN : EnableAdaptiveDutyCycling(enabled)

\* a caller updates the optimization parameters
UpdateParams ==
    \E duty_cycle \in ParamArgs, aggregation_factor \in ParamArgs :
        UpdateOptimizationParams(duty_cycle, aggregation_factor)

\* the dashboard posts an update of the optimization parameters
DashboardUpdate ==
    \E duty_cycle_pct \in RequestDutyCycles,
       aggregation_factor_pct \in RequestAggregationFactors :
        UpdateOptimization(duty_cycle_pct, aggregation_factor_pct)

\* one cycle of the sleep-mode update
SleepCycle ==
    \E readings \in ReadingArgs : UpdateSleepMode(readings)

\* the optimizer under any sequence of its calls
OptNext ==
    \/ DutyCycling
    \/ AdaptiveDutyCycling
    \/ UpdateParams
    \/ DashboardUpdate
    \/ SleepCycle

OptSpec == Init /\ [][OptNext]_vars

\* a simulation is started with or without optimization
Start ==
    \E optimization_enabled \in BOOLEAN : StartSimulation(optimization_enabled)

\* aggregation_factor arguments of update_optimization_params in AggSpec
AggregationFactorArgs == {<<10>>, <<100>>}

\* a caller sets the aggregation factor
UpdateFactor ==
    \E aggregation_factor \in AggregationFactorArgs :
        UpdateOptimizationParams(Absent, aggregation_factor)

\* a caller aggregates a list of readings
Aggregate ==
    \E readings \in AggregateArgs : AggregateData(readings)

\* aggregate_data under every setting of the flag and of the factor
AggNext == Start \/ UpdateFactor \/ Aggregate

AggSpec == Init /\ [][AggNext]_vars

\* duty_cycle arguments of enable_duty_cycling in SysSpec, in percent
SysDutyCycleArgs == {<<150>>, <<-20>>}

\* a caller sets the duty cycle of the sensors of the system
SysDutyCycling ==
    \E duty_cycle \in SysDutyCycleArgs : EnableDutyCycling(duty_cycle)

\* the values read in one cycle: 22 degrees, 60 percent humidity, motion
\* or none
CycleValues ==
    {[temp |-> 22 * ValueScale, hum |-> 60 * ValueScale, motion |-> m] :
        m \in {0, 1}}

\* the cycle collects the readings of the sensors
Collect ==
    \E values \in CycleValues : CollectSensorData(values, 0)

\* the cycle aggregates the readings it collected
AggregateCollected ==
    /\ sys_call.op = "collect_sensor_data"
    /\ AggregateData(sys_call.readings)

\* the cycle publishes the message of a reading it collected or aggregated
SysPublish ==
    \E readings \in {sys_call.readings, agg_call.result} :
        \E i \in DOMAIN readings :
            /\ publish_calls < MaxSysCalls
            /\ PublishReading(readings[i], TRUE)

\* a sensor of the system computes the power of one second of sleep
SensorPowerCall ==
    \E i \in DOMAIN sensors :
        CalculatePowerConsumption(sensors[i].sensor_type, sensors[i].duty_cycle,
                                  OpTimeScale, "sleep")

\* the cycle computes the power snapshot of the readings it collected or
\* aggregated, with no communication power or that of the last publish
SystemPower ==
    \E readings \in {sys_call.readings, agg_call.result},
       comm_power \in {0, PublishedPower} :
        CalculateSystemPower(readings, comm_power)

\* the system: its sensors, its optimizer and its channel
SysNext ==
    \/ Start
    \/ SysDutyCycling
    \/ Collect
    \/ AggregateCollected
    \/ SysPublish
    \/ SensorPowerCall
    \/ SystemPower

SysSpec == Init /\ [][SysNext]_vars

\* batch sizes the channel of the producers is configured with
ProducerBatchSizes == {1, 2}

\* the batch size is configured before the first message
ProducerSetup ==
    \E batch_size \in ProducerBatchSizes :
        /\ call.op = "__init__"
        /\ SetBatchParameters(TRUE, <<batch_size>>, Absent)

\* a producer calls publish_message
ProducerPublish ==
    \E p \in Producers :
        /\ call.op # "__init__"
        /\ publish_calls < MaxProducerCalls
        /\ ProducerAppend(p, PayloadSize)

\* a producer goes on in _batch_message
ProducerStep ==
    \E p \in Producers :
        \/ ProducerDecide(p)
        \/ ProducerSum(p)
        \/ \E ok \in BOOLEAN : ProducerCount(p, ok)
        \/ ProducerClear(p)

\* two threads publish on one channel in batch mode, in any interleaving
ProducerNext == ProducerSetup \/ ProducerPublish \/ ProducerStep

ProducerSpec == Init /\ [][ProducerNext]_vars

\* duty cycles of the update_optimization requests of CycleSpec, in
\* percent
CycleDutyCycles == {50, 80, 120}

\* the dashboard receives an update_optimization request
CycleRequest ==
    \E duty_cycle_pct \in CycleDutyCycles,
       aggregation_factor_pct \in RequestAggregationFactors :
        RequestBegin(duty_cycle_pct, aggregation_factor_pct)

\* the thread of the request goes on
CycleRequestStep ==
    RequestSetDutyCycle \/ RequestWriteSensor \/ RequestSetAggregationFactor

\* the simulation thread goes on
CycleStep == CycleBegin \/ CycleRead

\* the simulation thread runs its cycles while update_optimization
\* requests are served, in any interleaving
CycleNext == CycleRequest \/ CycleRequestStep \/ CycleStep

CycleSpec == Init /\ [][CycleNext]_vars

\* a request to start or to stop the simulation arrives
DashRequest ==
    \E r \in Requests :
        \/ \E optimization_enabled \in BOOLEAN :
              /\ Len(loop_threads) < MaxLoopThreads
              /\ StartBegin(r, optimization_enabled)
        \/ StopBegin(r)

\* the thread of a request goes on
DashRequestStep ==
    \E r \in Requests :
        \/ StartCheckRunning(r)
        \/ StartSetRunning(r)
        \/ StartConfigure(r)
        \/ StartCheckThread(r)
        \/ StartCreateThread(r)
        \/ StartStartThread(r)
        \/ StopClearRunning(r)
        \/ \E timed_out \in BOOLEAN : StopJoin(r, timed_out)

\* a simulation loop goes on
DashLoopStep ==
    \E t \in DOMAIN loop_threads : LoopTest(t) \/ LoopCycle(t)

\* the dashboard under concurrent start and stop requests
DashNext == DashRequest \/ DashRequestStep \/ DashLoopStep

DashSpec == Init /\ [][DashNext]_vars

\* the values read in one cycle of AlertSpec: a normal, a high and a
\* critically high temperature, a normal humidity, no motion
AlertCycleValues ==
    {[temp |-> t * ValueScale, hum |-> 60 * ValueScale, motion |-> 0] :
        t \in {22, 30, 40}}

\* time passes
AlertClock ==
    \E seconds \in ClockSteps : AlertTick(seconds)

\* a caller checks one reading of a cycle
AlertCheck ==
    \E values \in AlertCycleValues :
        \E i \in DOMAIN CollectedReadings(sensors, values) :
            CheckSensorReading(CollectedReadings(sensors, values)[i])

\* the caller has the alerts of its last check processed
AlertProcess ==
    \E sent \in 0..1 :
        /\ alert_call.op = "check_sensor_reading"
        /\ alert_call.alerts # <<>>
        /\ ProcessAlerts(alert_call.alerts, sent)

\* the cycle collects the readings and has their alerts processed
AlertCollect ==
    \E values \in AlertCycleValues, sent \in 0..1 :
        CollectSensorData(values, sent)

\* the alert system under any sequence of readings, checked one by one or
\* in the cycle, as time passes
AlertNext == AlertClock \/ AlertCheck \/ AlertProcess \/ AlertCollect

AlertSpec == Init /\ [][AlertNext]_vars

\* the detection loop on every list of readings and every stored value
ActivityNext ==
    \E readings \in ScanReadingArgs, last_sensor_values \in ScanLastValues :
        ScanReadings(readings, last_sensor_values)

ActivitySpec == Init /\ [][ActivityNext]_vars

(***************************************************************************)
(* Properties of the batch scheduler                                       *)
(***************************************************************************)
\* the step is a publish_message call
PublishStep == publish_calls' = publish_calls + 1

\* the step is a publish_message call that flushed the batch
FlushStep == PublishStep /\ call'.flushed

\* the batch a flushing call sends: the pending messages and its own
SentSize == SumSizes(message_batch) + call'.message_size

\* C1: at the instant of a flush inside _batch_message the batch holds at
\* most batch_size_limit messages, for any sequence of publish_message and
\* set_batch_parameters calls.
C1_FlushWithinLimit == call.flushed => call.batch_size <= batch_size_limit

\* C2: every flush, successful or failed, leaves message_batch empty and
\* sets last_batch_time to the time of the triggering call; a failed flush
\* adds nothing to message_count, and its messages are never counted later:
\* every published message is counted in message_count, or still pending, or
\* was given up, and never two of these.
C2_FlushClearsBatch ==
    [][/\ FlushStep =>
            /\ message_batch' = <<>>
            /\ last_batch_time' = now
            /\ ~call'.success =>
                  /\ message_count' = message_count
                  /\ uncounted' = uncounted + Len(message_batch) + 1
       /\ message_count' + Len(message_batch') + uncounted' = publish_calls'
      ]_vars

\* a failed flush of two messages was followed by a successful flush
C2_Witness ==
    /\ call.flushed /\ call.success
    /\ retry_count = 1 /\ uncounted = 2
    /\ message_count = 1 /\ message_batch = <<>>
    /\ last_batch_time = now

\* C3: a batch-mode publish_message call flushes if and only if, after
\* appending its message, the batch has reached batch_size_limit or
\* now - last_batch_time is strictly greater than batch_timeout; otherwise
\* the message stays pending and nothing is flushed.
C3_FlushCondition ==
    [][(PublishStep /\ batch_mode_enabled) =>
          /\ call'.flushed <=>
                \/ Len(message_batch) + 1 >= batch_size_limit
                \/ now - last_batch_time > batch_timeout
          /\ ~call'.flushed =>
                /\ Len(message_batch') = Len(message_batch) + 1
                /\ SubSeq(message_batch', 1, Len(message_batch)) = message_batch
                /\ message_batch'[Len(message_batch')].size = call'.message_size
                /\ message_count' = message_count
                /\ last_batch_time' = last_batch_time
      ]_vars

\* a message was queued, not flushed, at the instant the timeout was reached
\* exactly (elapsed time = batch_timeout) with the batch not full
C3_Witness ==
    /\ call.op = "_batch_message" /\ ~call.flushed
    /\ now - last_batch_time = batch_timeout
    /\ Len(message_batch) \in 1..(batch_size_limit - 1)

\* C4: whenever batch mode is off, message_batch is empty: switching
\* batch_mode_enabled through set_batch_parameters flushes or discards the
\* pending batch first.
C4_NoPendingWhenOff == ~batch_mode_enabled => message_batch = <<>>

\* C5: on a batch flush, a successful delivery adds the batch length to
\* message_count and the sum of the batch's sizes to total_bytes_sent and
\* leaves retry_count unchanged; a failed delivery adds 1 to retry_count,
\* leaves the other two counters unchanged and multiplies the (discounted)
\* batch power by 1.5.
C5_FlushCounters ==
    [][FlushStep =>
          LET discounted == (call'.raw_power * call'.efficiency_factor) \div 10
          IN IF call'.success
             THEN /\ message_count' = message_count + Len(message_batch) + 1
                  /\ total_bytes_sent' = total_bytes_sent + SentSize
                  /\ retry_count' = retry_count
                  /\ call'.batch_power = discounted
             ELSE /\ retry_count' = retry_count + 1
                  /\ message_count' = message_count
                  /\ total_bytes_sent' = total_bytes_sent
                  /\ 2 * call'.batch_power <= 3 * discounted
                  /\ 3 * discounted < 2 * call'.batch_power + 2
      ]_vars

\* a batch of two messages failed after an earlier batch was delivered
C5_Witness ==
    /\ call.flushed /\ ~call.success /\ call.batch_size = 2
    /\ retry_count = 1 /\ message_count = 1
    /\ total_bytes_sent \in MessageSizes

\* C6: with batch mode off, a successful publish returns (True, P), adds 1
\* to message_count and the message size to total_bytes_sent; a failed one
\* returns (False, 2 * P), adds 1 to retry_count and leaves the other
\* counters unchanged, P being the same calculate_comm_power value; so each
\* such call adds exactly 1 to message_count + retry_count.
C6_SinglePublish ==
    [][(PublishStep /\ ~batch_mode_enabled) =>
          LET size == call'.message_size
              P == calculate_comm_power(size, TransmissionTime(size),
                                        call'.sensor_location)
          IN /\ call'.op = "_publish_single_message"
             /\ IF call'.success
                THEN /\ call'.power = P
                     /\ message_count' = message_count + 1
                     /\ total_bytes_sent' = total_bytes_sent + size
                     /\ retry_count' = retry_count
                ELSE /\ call'.power = 2 * P
                     /\ retry_count' = retry_count + 1
                     /\ message_count' = message_count
                     /\ total_bytes_sent' = total_bytes_sent
             /\ message_count' + retry_count' = message_count + retry_count + 1
             /\ message_batch' = message_batch
      ]_vars

\* a single-mode publish failed after one succeeded
C6_Witness ==
    /\ call.op = "_publish_single_message" /\ ~call.success
    /\ call.power > 0
    /\ message_count = 1 /\ retry_count = 1 /\ publish_calls = 2

\* C7: at a flush the batch power is the power at the average distance of
\* the distinct locations of the batch whenever some message of the batch
\* carries a location, whether or not the triggering message has one, and
\* the size/time formula only when no message carries a location.
C7_LocationAverage ==
    call.flushed =>
        LET t == BatchTransmissionTime(call.total_size)
        IN call.raw_power =
              IF call.total_locations # {}
              THEN AverageDistancePower(call.total_locations, t)
              ELSE calculate_comm_power(call.total_size, t, None)

\* C8: the efficiency factor applied at a flush of n messages is
\* max(0.5, 1.0 - 0.1 * n): never below 0.5, equal to 0.5 for n >= 5 and
\* non-increasing in n.
C8_EfficiencyFactor ==
    call.flushed =>
        LET n == call.batch_size
            f == call.efficiency_factor
        IN /\ f = IF 10 - n >= 5 THEN 10 - n ELSE 5
           /\ f >= 5
           /\ n >= 5 => f = 5
           /\ \A m \in 1..n : EfficiencyFactor(m) >= f

\* a batch of six messages was flushed with the factor at its floor
C8_Witness ==
    call.flushed /\ call.batch_size = 6 /\ call.efficiency_factor = 5

(***************************************************************************)
(* Properties of the power model                                           *)
(***************************************************************************)
\* C9: calculate_power_consumption called with an operation kind other than
\* sensing, communication, processing or sleep fails with an
\* InvalidOperationKind outcome instead of returning a power value.
C9_InvalidOperationKind ==
    (eval.fn = "calculate_power_consumption"
        /\ eval.operation_type \notin KnownOperationTypes)
    => eval.result.kind = "InvalidOperationKind"

\* C10: for every profile, duration t and duty cycle in [0,1], the sensing
\* power is sensingPower * t * dutyCycle, the sleep power is
\* sleepPower * t * (1 - dutyCycle), and the communication and processing
\* powers do not depend on the duty cycle.
C10_DutyCycleGating ==
    eval.fn = "calculate_power_consumption" =>
        LET power == SensorPower(eval.sensor_type)
            t == eval.operation_time
            d == eval.duty_cycle
            op == eval.operation_type
        IN /\ op = "sensing" =>
                eval.result = Value(power.sensing * t * d)
           /\ op = "sleep" =>
                eval.result = Value(power.sleep * t * DutyScale - power.sleep * t * d)
           /\ op \in {"communication", "processing"} =>
                /\ eval.result = Value(power[op] * t * DutyScale)
                /\ \A other \in DutyCycles :
                      calculate_power_consumption(eval.sensor_type, other, t, op)
                         = eval.result

\* the sleep power of an air-quality sensor at a duty cycle of 0.4 over 1 s
C10_Witness ==
    /\ eval.fn = "calculate_power_consumption"
    /\ eval.operation_type = "sleep" /\ eval.sensor_type = "AirQuality"
    /\ eval.duty_cycle = 40 /\ eval.operation_time = 100
    /\ eval.result = Value(60000)

(***************************************************************************)
(* Properties of the path-loss model                                       *)
(***************************************************************************)
\* C11: calculate_distance returns exactly 50 m for every location name that
\* is not in the location table, and for a name in the table the Euclidean
\* distance from the gateway at the origin: the result d, in whole
\* centimetres, is the one with d^2 <= x^2 + y^2 < (d + 1)^2.
C11_DistanceOfLocation ==
    radio.fn = "calculate_distance" =>
        IF radio.sensor_location \in DOMAIN sensor_locations
        THEN LET pos == sensor_locations[radio.sensor_location]
                 square == (pos[1] * pos[1] + pos[2] * pos[2])
                               * DistScale * DistScale
             IN /\ radio.result * radio.result <= square
                /\ square < (radio.result + 1) * (radio.result + 1)
        ELSE radio.result = 50 * DistScale

\* the distance of the living room at (8, 12), sqrt(208) = 14.42 m, has been
\* computed
C11_Witness ==
    /\ radio.fn = "calculate_distance"
    /\ radio.sensor_location = "Living Room"
    /\ radio.result = 1442

\* C12: calculate_transmission_power(d) is 50 mW for every d <= 10 m, never
\* exceeds 200 mW, and does not decrease from one call to the next when the
\* distance, above 10 m, does not decrease.
C12_TransmissionPowerShape ==
    [][radio'.fn = "calculate_transmission_power" =>
          /\ radio'.distance <= 10 * DistScale => radio'.result = 50 * PowerScale
          /\ radio'.result <= 200 * PowerScale
          /\ (/\ radio.fn = "calculate_transmission_power"
              /\ radio.distance > 10 * DistScale
              /\ radio.distance <= radio'.distance)
                 => radio.result <= radio'.result]_vars

\* a distance so long that the power is held at the cap has been asked for
C12_Witness ==
    /\ radio.fn = "calculate_transmission_power"
    /\ radio.distance > 1000 * DistScale
    /\ radio.result = 200 * PowerScale

\* C13 as stated: calculate_transmission_power(40) is approximately 93.3 mW
C13_StatedValueAt40 ==
    (radio.fn = "calculate_transmission_power" /\ radio.distance = 40 * DistScale)
        => (radio.result >= 928 /\ radio.result <= 938)

\* C13: calculate_transmission_power(10) is 50 mW and
\* calculate_transmission_power(40) is 50 * 4 ^ 0.3, approximately 75.8 mW
\* (within half a milliwatt).
C13_ReferenceValues ==
    radio.fn = "calculate_transmission_power" =>
        /\ radio.distance = 10 * DistScale => radio.result = 50 * PowerScale
        /\ radio.distance = 40 * DistScale =>
               (radio.result >= 753 /\ radio.result <= 763)

\* the transmission power over 40 m has been computed
C13_Witness ==
    /\ radio.fn = "calculate_transmission_power"
    /\ radio.distance = 40 * DistScale
    /\ radio.result > 50 * PowerScale

(***************************************************************************)
(* Properties of the energy optimizer                                      *)
(***************************************************************************)
\* the step is a call of update_sleep_mode with progressive sleep enabled
SleepStep ==
    /\ opt_call'.op = "update_sleep_mode"
    /\ optimizer.progressive_sleep

\* every sensor of the list has the duty cycle
AllDutyCycles(sensor_list, duty_cycle) ==
    \A i \in DOMAIN sensor_list : sensor_list[i].duty_cycle = duty_cycle

\* C14: update_optimization_params applies each optional value only if it
\* lies in [0.1, 1.0], each on its own: a duty_cycle in the range becomes the
\* optimizer's and every sensor's duty cycle, any other leaves them all
\* unchanged; an aggregation_factor in the range becomes the optimizer's,
\* any other leaves it unchanged; the call returns in every case.
C14_IndependentValidation ==
    [][opt_call'.op = "update_optimization_params" =>
          LET d == opt_call'.duty_cycle
              a == opt_call'.aggregation_factor
              d_ok == IF d = Absent THEN FALSE ELSE d[1] >= 10 /\ d[1] <= 100
              a_ok == IF a = Absent THEN FALSE ELSE a[1] >= 10 /\ a[1] <= 100
          IN /\ IF d_ok
                THEN /\ optimizer'.duty_cycle = d[1]
                     /\ AllDutyCycles(sensors', d[1])
                ELSE /\ optimizer'.duty_cycle = optimizer.duty_cycle
                     /\ sensors' = sensors
             /\ optimizer'.aggregation_factor =
                    IF a_ok THEN a[1] ELSE optimizer.aggregation_factor
             /\ opt_call'.updated = (d_ok \/ a_ok)]_vars

\* a call with a duty cycle above the range and an aggregation factor on its
\* lower bound has applied the factor and left the duty cycles alone
C14_Witness ==
    /\ opt_call.op = "update_optimization_params"
    /\ opt_call.duty_cycle = <<101>>
    /\ opt_call.aggregation_factor = <<10>>
    /\ optimizer.aggregation_factor = 10
    /\ optimizer.duty_cycle = 80
    /\ AllDutyCycles(sensors, 60)

\* C15: after any sequence of optimizer operations every sensor's duty cycle
\* lies in [0, 1].
C15_SensorDutyCycleRange ==
    \A i \in DOMAIN sensors :
        sensors[i].duty_cycle >= 0 /\ sensors[i].duty_cycle <= DutyScale

\* C16: after any sequence of optimizer operations, dashboard updates with
\* arbitrary percentages included, 0 < aggregation_factor <= 1.
C16_AggregationFactorRange ==
    /\ optimizer.aggregation_factor > 0
    /\ optimizer.aggregation_factor <= DutyScale

\* a dashboard request for a power reduction of 120 percent, an aggregation
\* factor of -0.2, has been served and the factor is still the initial one
C16_Witness ==
    /\ opt_call.op = "update_optimization_params"
    /\ opt_call.aggregation_factor = <<-20>>
    /\ optimizer.aggregation_factor = 70

\* C17: current_sleep_level is always an index of the four sleep levels,
\* 0 <= current_sleep_level <= 3, also when inactivity goes on at the
\* deepest level.
C17_SleepLevelIsIndex ==
    /\ optimizer.current_sleep_level >= 0
    /\ optimizer.current_sleep_level <= 3

\* an inactive cycle has run out the timeout at the deepest level: the level
\* stayed, no duty cycle changed and the counter restarted
C17_Witness ==
    /\ opt_call.op = "update_sleep_mode"
    /\ optimizer.progressive_sleep
    /\ ~opt_call.activity_detected
    /\ optimizer.current_sleep_level = 3
    /\ optimizer.inactivity_counter = 0
    /\ opt_call.power_saved = 0
    /\ AllDutyCycles(sensors, 20)

\* C18: with progressive sleep enabled, every update_sleep_mode call that
\* detects activity ends with current_sleep_level = 0 and
\* inactivity_counter = 0, whatever they were before.
C18_ActivityResets ==
    [][(SleepStep /\ opt_call'.activity_detected) =>
          /\ optimizer'.current_sleep_level = 0
          /\ optimizer'.inactivity_counter = 0]_vars

\* activity has brought the sensors from the 40 percent level, two levels
\* deep, straight back to level 0
C18_Witness ==
    /\ opt_call.op = "update_sleep_mode"
    /\ opt_call.activity_detected
    /\ opt_call.power_saved = (80 - 40) * (150 + 80) * 5
    /\ optimizer.current_sleep_level = 0
    /\ optimizer.inactivity_counter = 0
    /\ AllDutyCycles(sensors, 80)

\* C19: at a level below the deepest, an inactive cycle that is not the
\* fifth since the counter was 0 leaves the level unchanged and counts one
\* more; the fifth raises the level by exactly one and sets the counter to 0.
C19_TimeoutAdvancesOneLevel ==
    [][(/\ SleepStep
        /\ ~opt_call'.activity_detected
        /\ optimizer.current_sleep_level < 3) =>
          IF optimizer.inactivity_counter + 1 < 5
          THEN /\ optimizer'.current_sleep_level = optimizer.current_sleep_level
               /\ optimizer'.inactivity_counter = optimizer.inactivity_counter + 1
          ELSE /\ optimizer.inactivity_counter + 1 = 5
               /\ optimizer'.current_sleep_level =
                      optimizer.current_sleep_level + 1
               /\ optimizer'.inactivity_counter = 0]_vars

\* the fifth inactive cycle at level 0 has brought the sensors from 80
\* percent to level 1
C19_Witness ==
    /\ opt_call.op = "update_sleep_mode"
    /\ ~opt_call.activity_detected
    /\ opt_call.power_saved = (80 - 60) * (150 + 80) * 5
    /\ optimizer.current_sleep_level = 1
    /\ optimizer.inactivity_counter = 0
    /\ AllDutyCycles(sensors, 60)

\* C20: an update_sleep_mode call that detects activity at a level above 0
\* and raises the sensors' duty cycles on the jump back to level 0 returns a
\* negative power delta.
C20_WakeDeltaNegative ==
    [][(/\ SleepStep
        /\ opt_call'.activity_detected
        /\ optimizer.current_sleep_level > 0
        /\ \A i \in DOMAIN sensors :
               sensors[i].duty_cycle < sensors'[i].duty_cycle) =>
          opt_call'.power_saved < 0]_vars

\* C21: an update_sleep_mode call that goes one level deeper returns a power
\* delta that is not negative, whatever duty cycles the sensors had, and a
\* call that changes no level returns exactly 0.
C21_DeeperDeltaNonNegative ==
    [][SleepStep =>
          /\ optimizer'.current_sleep_level = optimizer.current_sleep_level + 1
                 => opt_call'.power_saved >= 0
          /\ optimizer'.current_sleep_level = optimizer.current_sleep_level
                 => opt_call'.power_saved = 0]_vars

\* C22: when update_sleep_mode changes current_sleep_level, every sensor has
\* the duty cycle of the new level of [0.8, 0.6, 0.4, 0.2] on return; when
\* it does not, no sensor's duty cycle is modified.
C22_LevelDutyApplied ==
    [][opt_call'.op = "update_sleep_mode" =>
          IF optimizer'.current_sleep_level # optimizer.current_sleep_level
          THEN AllDutyCycles(sensors',
                   <<80, 60, 40, 20>>[optimizer'.current_sleep_level + 1])
          ELSE sensors' = sensors]_vars

\* the fifth inactive cycle at level 1 has put every sensor on the 40
\* percent of level 2
C22_Witness ==
    /\ opt_call.op = "update_sleep_mode"
    /\ ~opt_call.activity_detected
    /\ opt_call.power_saved = (60 - 40) * (150 + 80) * 5
    /\ optimizer.current_sleep_level = 2
    /\ optimizer.inactivity_counter = 0
    /\ AllDutyCycles(sensors, 40)

(***************************************************************************)
(* Properties of the system, of aggregation and of activity detection      *)
(***************************************************************************)
\* C23: a call of publish_message, aggregate_data,
\* calculate_power_consumption, calculate_system_power or
\* collect_sensor_data leaves the duty cycle of every sensor unchanged.
C23_OnlyOptimizerWritesDutyCycle ==
    [][(\/ PublishStep
        \/ agg_call' # agg_call
        \/ eval' # eval
        \/ sys_call' # sys_call) =>
          /\ DOMAIN sensors' = DOMAIN sensors
          /\ \A i \in DOMAIN sensors :
                 sensors'[i].duty_cycle = sensors[i].duty_cycle]_vars

\* with the sensors at 80 percent a cycle has collected, aggregated and
\* published readings and computed a sensor's and the system's power
C23_Witness ==
    /\ AllDutyCycles(sensors, 80)
    /\ publish_calls > 0
    /\ agg_call.op = "aggregate_data"
    /\ eval.fn = "calculate_power_consumption"
    /\ eval.duty_cycle = 80
    /\ sys_call.op = "calculate_system_power"
    /\ sys_call.readings # <<>>

\* C24: with optimization_enabled False, aggregate_data returns the list
\* of readings it was given, unchanged, and changes no optimizer state.
C24_DisabledIsIdentity ==
    [][(agg_call' # agg_call /\ ~optimizer.optimization_enabled) =>
          /\ agg_call'.result = agg_call'.readings
          /\ optimizer' = optimizer]_vars

\* three temperature readings and a humidity reading have come back as
\* they were because optimization is off
C24_Witness ==
    /\ agg_call.op = "aggregate_data"
    /\ ~agg_call.optimization_enabled
    /\ Len(agg_call.readings) = 4
    /\ agg_call.result = agg_call.readings

\* the positions of the readings of the list with the suffix
Members(readings, sensor_type) ==
    {i \in DOMAIN readings : Suffix(readings[i].sensor_id) = sensor_type}

\* the suffixes of the readings of the list
Suffixes(readings) ==
    {Suffix(readings[i].sensor_id) : i \in DOMAIN readings}

\* C25: with aggregation enabled, a reading that is alone in its suffix
\* group is in the result unchanged, and a group of N > 1 readings that all
\* have the value v and the power p yields a reading with value v and
\* power N * p * aggregation_factor.
C25_IdentityAndIdenticalGroups ==
    (agg_call.op = "aggregate_data" /\ agg_call.optimization_enabled) =>
        \A sensor_type \in Suffixes(agg_call.readings) :
            LET members == Members(agg_call.readings, sensor_type)
                N == Cardinality(members)
                first == agg_call.readings[CHOOSE i \in members : TRUE]
            IN IF N = 1
               THEN \E j \in DOMAIN agg_call.result : agg_call.result[j] = first
               ELSE (\A i \in members :
                         /\ agg_call.readings[i].value = first.value
                         /\ agg_call.readings[i].power_consumed
                                = first.power_consumed)
                    => \E j \in DOMAIN agg_call.result :
                          /\ agg_call.result[j].value = first.value
                          /\ agg_call.result[j].power_consumed * DutyScale
                                 = N * first.power_consumed
                                     * agg_call.aggregation_factor

\* three readings of 24 degrees and 0.12 mJ each have given one of 24
\* degrees and 3 * 0.12 * 0.7 mJ, next to the untouched humidity reading
C25_Witness ==
    /\ agg_call.op = "aggregate_data"
    /\ agg_call.optimization_enabled
    /\ agg_call.aggregation_factor = 70
    /\ Len(agg_call.readings) = 4
    /\ \A i \in Members(agg_call.readings, "temp") :
           /\ agg_call.readings[i].value = 24 * ValueScale
           /\ agg_call.readings[i].power_consumed = 120000
    /\ agg_call.result =
           <<[sensor_id |-> "aggregated_temp", value |-> 24 * ValueScale,
              unit |-> "C", power_consumed |-> 252000],
             agg_call.readings[2]>>

\* C26: with aggregation enabled the result holds exactly one reading per
\* suffix of the input, and for every suffix group of size N > 1 it is the
\* reading with id 'aggregated_' + suffix, the mean of the group's values
\* and the sum of the group's powers times aggregation_factor.
C26_GroupsCollapse ==
    (agg_call.op = "aggregate_data" /\ agg_call.optimization_enabled) =>
        /\ Len(agg_call.result) = Cardinality(Suffixes(agg_call.readings))
        /\ \A sensor_type \in Suffixes(agg_call.readings) :
               LET group == GroupOf(agg_call.readings, sensor_type)
                   N == Cardinality(Members(agg_call.readings, sensor_type))
                   outputs == {j \in DOMAIN agg_call.result :
                                 agg_call.result[j].sensor_id
                                     = "aggregated_" \o sensor_type}
               IN IF N > 1
                  THEN /\ Cardinality(outputs) = 1
                       /\ \A j \in outputs :
                              /\ agg_call.result[j].value * N = SumValues(group)
                              /\ agg_call.result[j].power_consumed * DutyScale
                                     = SumPowers(group)
                                         * agg_call.aggregation_factor
                  ELSE outputs = {}

\* the temperatures 20, 22 and 24 with factor 0.7 have given one reading
\* of 22 degrees with 0.7 times the sum of the powers
C26_Witness ==
    /\ agg_call.op = "aggregate_data"
    /\ agg_call.optimization_enabled
    /\ agg_call.aggregation_factor = 70
    /\ Len(agg_call.readings) = 3
    /\ agg_call.readings[1].value = 20 * ValueScale
    /\ agg_call.readings[2].value = 22 * ValueScale
    /\ agg_call.readings[3].value = 24 * ValueScale
    /\ agg_call.result =
           <<[sensor_id |-> "aggregated_temp", value |-> 22 * ValueScale,
              unit |-> "C",
              power_consumed |->
                  (SumPowers(agg_call.readings) * 70) \div 100]>>
    /\ SumPowers(agg_call.readings) = 3 * 120000

\* C27: aggregate_data never returns more readings than it was given, and
\* the powers of its result never add up to more than those of its input.
C27_AggregationNeverAdds ==
    agg_call.op = "aggregate_data" =>
        /\ Len(agg_call.result) <= Len(agg_call.readings)
        /\ SumPowers(agg_call.result) <= SumPowers(agg_call.readings)

\* with factor 0.1 an aggregation has returned fewer readings and less
\* power than it was given
C27_Witness ==
    /\ agg_call.op = "aggregate_data"
    /\ agg_call.aggregation_factor = 10
    /\ Len(agg_call.result) < Len(agg_call.readings)
    /\ SumPowers(agg_call.result) < SumPowers(agg_call.readings)
    /\ SumPowers(agg_call.result) > 0

\* C28: the total_power of every snapshot of calculate_system_power is
\* exactly sensing_power + communication_power + processing_power +
\* sleep_power.
C28_TotalIsSum ==
    sys_call.op = "calculate_system_power" =>
        sys_call.metrics.total_power =
            sys_call.metrics.sensing_power
                + sys_call.metrics.communication_power
                + sys_call.metrics.processing_power
                + sys_call.metrics.sleep_power

\* a snapshot with all four parts above zero has been built
C28_Witness ==
    /\ sys_call.op = "calculate_system_power"
    /\ sys_call.metrics.sensing_power > 0
    /\ sys_call.metrics.communication_power > 0
    /\ sys_call.metrics.processing_power > 0
    /\ sys_call.metrics.sleep_power > 0

\* C29: every field of every snapshot of calculate_system_power is
\* non-negative.
C29_MetricsNonNegative ==
    sys_call.op = "calculate_system_power" =>
        /\ sys_call.metrics.sensing_power >= 0
        /\ sys_call.metrics.communication_power >= 0
        /\ sys_call.metrics.processing_power >= 0
        /\ sys_call.metrics.sleep_power >= 0
        /\ sys_call.metrics.total_power >= 0

\* C30: the loop detects activity exactly when a motion reading has a
\* value above 0, or a temperature reading comes with a stored previous
\* value and a change above 5 percent: |cur - prev| / |prev| * 100, taken as
\* 100 when prev = 0 and cur # 0 and as 0 when both are 0.  Afterwards the
\* stored temperature is the one read, if any, and no motion value is
\* stored.
C30_ActivityDetection ==
    scan.op = "update_sleep_mode" =>
        LET motion == scan.readings["pir_01_motion"]
            cur == scan.readings["living_room_01_temp"]
            prev == scan.last_sensor_values["living_room_01_temp"]
            difference == IF cur[1] >= prev[1] THEN cur[1] - prev[1]
                          ELSE prev[1] - cur[1]
            magnitude == IF prev[1] >= 0 THEN prev[1] ELSE 0 - prev[1]
            changed == IF prev[1] = 0 THEN cur[1] # 0
                       ELSE difference * 100 > 5 * magnitude
        IN /\ scan.activity_detected =
                  (\/ (motion # <<>> /\ motion[1] > 0)
                   \/ (cur # <<>> /\ prev # <<>> /\ changed))
           /\ scan.stored["pir_01_motion"] = <<>>
           /\ scan.stored["living_room_01_temp"] =
                  IF cur # <<>> THEN cur ELSE prev

\* a temperature of 106 after a stored 100, with no motion, has counted as
\* activity
C30_Witness ==
    /\ scan.op = "update_sleep_mode"
    /\ scan.readings["pir_01_motion"] = <<0>>
    /\ scan.readings["living_room_01_temp"] = <<106>>
    /\ scan.last_sensor_values["living_room_01_temp"] = <<100>>
    /\ scan.activity_detected
    /\ scan.stored["living_room_01_temp"] = <<106>>

(***************************************************************************)
(* Further properties of the sleep levels                                  *)
(***************************************************************************)
\* C31: across an update_sleep_mode call current_sleep_level stays, goes up
\* by exactly 1 or goes to 0, and it does not go down without detected
\* activity.  It goes up only on the fifth inactive cycle counted by
\* inactivity_counter, which is 0 after every increase and grows by at most
\* one per call and in no other operation, so two increases are at least
\* sleep_level_timeout = 5 cycles apart.
C31_LevelMovesInSteps ==
    [][/\ opt_call'.op = "update_sleep_mode" =>
             /\ \/ optimizer'.current_sleep_level = optimizer.current_sleep_level
                \/ optimizer'.current_sleep_level
                       = optimizer.current_sleep_level + 1
                \/ optimizer'.current_sleep_level = 0
             /\ ~opt_call'.activity_detected =>
                    optimizer'.current_sleep_level
                        >= optimizer.current_sleep_level
             /\ optimizer'.current_sleep_level
                    = optimizer.current_sleep_level + 1 =>
                       /\ optimizer.inactivity_counter = 5 - 1
                       /\ optimizer'.inactivity_counter = 0
             /\ \/ optimizer'.inactivity_counter = optimizer.inactivity_counter
                \/ optimizer'.inactivity_counter
                       = optimizer.inactivity_counter + 1
                \/ optimizer'.inactivity_counter = 0
       /\ opt_call'.op # "update_sleep_mode" =>
             /\ optimizer'.current_sleep_level \in
                    {optimizer.current_sleep_level, 0}
             /\ optimizer'.inactivity_counter \in
                    {optimizer.inactivity_counter, 0}]_vars

\* the level has gone from 2 to 3 on an inactive cycle in which the
\* temperature moved by less than the threshold
C31_Witness ==
    /\ opt_call.op = "update_sleep_mode"
    /\ ~opt_call.activity_detected
    /\ opt_call.power_saved = (40 - 20) * (150 + 80) * 5
    /\ optimizer.current_sleep_level = 3
    /\ optimizer.inactivity_counter = 0
    /\ optimizer.last_sensor_values["living_room_01_temp"] = <<104>>

\* C32: while progressive sleep is disabled update_sleep_mode returns 0 and
\* changes neither the optimizer (inactivity_counter, current_sleep_level,
\* last_sensor_values) nor any sensor's duty cycle.
C32_DisabledSleepIsNoOp ==
    [][(opt_call'.op = "update_sleep_mode" /\ ~optimizer.progressive_sleep) =>
          /\ opt_call'.power_saved = 0
          /\ ~opt_call'.activity_detected
          /\ optimizer' = optimizer
          /\ sensors' = sensors]_vars

\* update_sleep_mode has returned with progressive sleep switched off at
\* level 1, after five inactive cycles: level, counter and the stored
\* temperature are as they were
C32_Witness ==
    /\ opt_call.op = "update_sleep_mode"
    /\ ~optimizer.progressive_sleep
    /\ optimizer.current_sleep_level = 1
    /\ optimizer.last_sensor_values["living_room_01_temp"] # Absent
    /\ AllDutyCycles(sensors, 60)

\* C38: with progressive sleep enabled, 0 <= inactivity_counter < 5 after
\* every update_sleep_mode call; at the deepest level the fifth inactive
\* cycle resets the counter, keeps the level and every sensor's duty cycle
\* and returns 0.
C38_CounterBelowTimeout ==
    [][SleepStep =>
          /\ optimizer'.inactivity_counter >= 0
          /\ optimizer'.inactivity_counter < 5
          /\ (/\ optimizer.current_sleep_level = 3
              /\ ~opt_call'.activity_detected
              /\ optimizer.inactivity_counter = 4) =>
                 /\ optimizer'.inactivity_counter = 0
                 /\ optimizer'.current_sleep_level = 3
                 /\ sensors' = sensors
                 /\ opt_call'.power_saved = 0]_vars

\* the timeout has run out at the deepest level with the sensors at the 10
\* percent a parameter update gave them
C38_Witness ==
    /\ opt_call.op = "update_sleep_mode"
    /\ optimizer.progressive_sleep
    /\ ~opt_call.activity_detected
    /\ optimizer.current_sleep_level = 3
    /\ optimizer.inactivity_counter = 0
    /\ opt_call.power_saved = 0
    /\ AllDutyCycles(sensors, 10)

(***************************************************************************)
(* Further properties of the channel                                       *)
(***************************************************************************)
\* C36: message_count never exceeds the number of publish_message calls;
\* the bytes counted and the bytes pending never grow by more than the size
\* of the message published, so total_bytes_sent never exceeds the sum of
\* the sizes published; message_count + len(message_batch) is the number of
\* calls exactly when no delivery has failed (retry_count = 0); and
\* message_count, total_bytes_sent and retry_count never decrease.
C36_CountersBounded ==
    [][/\ message_count' <= publish_calls'
       /\ total_bytes_sent' + SumSizes(message_batch')
             <= total_bytes_sent + SumSizes(message_batch)
                  + (IF PublishStep THEN call'.message_size ELSE 0)
       /\ (message_count' + Len(message_batch') = publish_calls')
             <=> (retry_count' = 0)
       /\ message_count' >= message_count
       /\ total_bytes_sent' >= total_bytes_sent
       /\ retry_count' >= retry_count]_vars

\* in batch mode one batch has been delivered, one has failed and a message
\* is pending
C36_Witness ==
    /\ batch_mode_enabled
    /\ message_count = 1
    /\ total_bytes_sent \in MessageSizes
    /\ retry_count = 1
    /\ Len(message_batch) = 1
    /\ publish_calls = 3

\* C37: in batch mode with the parameters set once, a publish_message call
\* either empties the batch or appends its message behind the pending ones,
\* and leaves fewer than batch_size_limit messages pending, so a message has
\* left the batch by the (batch_size_limit - 1)-th call after its own; no
\* other step changes the batch, so a message whose timeout has elapsed
\* stays pending until the next call.
C37_FlushWithinLimit ==
    [][/\ PublishStep =>
             /\ Len(message_batch') < batch_size_limit
             /\ \/ message_batch' = <<>>
                \/ /\ Len(message_batch') = Len(message_batch) + 1
                   /\ SubSeq(message_batch', 1, Len(message_batch))
                         = message_batch
                   /\ message_batch'[Len(message_batch')].size
                         = call'.message_size
             /\ call'.flushed <=> message_batch' = <<>>
       /\ ~PublishStep => message_batch' = message_batch]_vars

\* a message is still pending although the timeout of its batch has elapsed
C37_Witness ==
    /\ call.op = "_batch_message"
    /\ ~call.flushed
    /\ message_batch # <<>>
    /\ TimeoutReached(now, last_batch_time, batch_timeout)

(***************************************************************************)
(* Properties of the simulation cycle                                      *)
(***************************************************************************)
\* the positions of the sensors whose readings carry the id
ProducingSensors(sensor_list, sensor_id) ==
    {i \in DOMAIN sensor_list :
        sensor_id \in {sensor_list[i].sensor_id \o suffix :
                          suffix \in {"_temp", "_hum", "_motion"}}}

\* C35: a reading of a sensor is published with sensor_location set to the
\* location of the sensor that produced it.
C35_PublishedWithSensorLocation ==
    sys_call.op = "publish_message" =>
        \A i \in ProducingSensors(sensors, sys_call.published) :
            call.sensor_location = sensors[i].location

(***************************************************************************)
(* Properties of the alert system                                          *)
(***************************************************************************)
\* the keys of the alerts of a list
KeysOf(alerts) ==
    {AlertKey(alerts[i].sensor_id, alerts[i].alert_type) : i \in DOMAIN alerts}

\* the step is a call that checks readings: check_sensor_reading, or the
\* checks of collect_sensor_data
CheckStep ==
    /\ alert_call'.op \in {"check_sensor_reading", "collect_sensor_data"}
    /\ wall_clock' = wall_clock

\* C40: an alert of a key is emitted at least alert_cooldown = 300 seconds
\* after the last alert of the same key, whose time last_alert_time holds
\* and which no other step writes; and a collect_sensor_data call that
\* starts with no pending alert ends with none.
C40_CooldownAndNoPending ==
    [][/\ CheckStep =>
             \A k \in AlertKeys :
                IF k \in KeysOf(alert_call'.alerts)
                THEN /\ email_alert_system'.last_alert_time[k] = <<wall_clock>>
                     /\ \/ email_alert_system.last_alert_time[k] = Absent
                        \/ wall_clock
                             - email_alert_system.last_alert_time[k][1] >= 300
                ELSE email_alert_system'.last_alert_time[k]
                        = email_alert_system.last_alert_time[k]
       /\ ~CheckStep =>
             email_alert_system'.last_alert_time
                = email_alert_system.last_alert_time
       /\ (alert_call'.op = "collect_sensor_data"
              /\ email_alert_system.pending_alerts = {}) =>
                 email_alert_system'.pending_alerts = {}]_vars

\* a cycle has raised a second alert of the key of a high temperature, 300
\* seconds after the first, and left nothing pending
C40_Witness ==
    /\ alert_call.op = "collect_sensor_data"
    /\ "living_room_01_High Temperature" \in KeysOf(alert_call.alerts)
    /\ email_alert_system.last_alert_time["living_room_01_High Temperature"]
          = <<300>>
    /\ \E i \in DOMAIN email_alert_system.alert_history :
          /\ email_alert_system.alert_history[i].alert_type = "High Temperature"
          /\ email_alert_system.alert_history[i].timestamp = 0
    /\ email_alert_system.pending_alerts = {}

(***************************************************************************)
(* Properties of the threads                                               *)
(***************************************************************************)
\* C33: when no producer is inside publish_message and no delivery has
\* failed, every message appended is pending or was counted once: the
\* messages counted and the messages pending are the messages published,
\* and so are their bytes.
C33_AppendAndFlushAtomic ==
    (/\ \A p \in Producers : producers[p].pc = "idle"
     /\ retry_count = 0) =>
        /\ message_count + Len(message_batch) = publish_calls
        /\ total_bytes_sent + SumSizes(message_batch)
              = PayloadSize * publish_calls

\* C34: the power of every reading and the sleep power of one cycle are
\* computed with one duty cycle: all calls of calculate_power_consumption
\* of a finished cycle have read the same duty cycle.
C34_OneDutyCyclePerCycle ==
    simulation_cycle.pc = "done" =>
        \A i, j \in DOMAIN simulation_cycle.reads :
            simulation_cycle.reads[i].duty_cycle
                = simulation_cycle.reads[j].duty_cycle

\* the simulation loops that are alive
AliveLoops == {t \in DOMAIN loop_threads : IsAlive(loop_threads, t)}

\* C39: at most one _run_simulation loop is alive at any time, whatever
\* the interleaving of the start_simulation and stop_simulation requests.
C39_AtMostOneLoop == Cardinality(AliveLoops) <= 1

====
